---- MODULE Spec2Model ----
(***************************************************************************)
(* A model of stasher-cli: the base64url codec, the AES-256-GCM envelope,  *)
(* the wire payload, the retrying request layer (fetchWithRetry) and the   *)
(* enstash / destash / unstash commands running against the stash backend. *)
(*                                                                         *)
(* Text is modelled as a sequence of character codes (ASCII), a Buffer as  *)
(* a sequence of bytes 0..255.                                             *)
(***************************************************************************)
EXTENDS Integers, Sequences, FiniteSets, TLC

\* ------------------------------------------------------------ constants
KEY_LENGTH == 32
IV_LENGTH == 12
TAG_LENGTH == 16
MAX_SECRET_LENGTH == 4096
MAX_PAYLOAD_SIZE == 10240

\* ------------------------------------------------------------ bounds
\* longest enumerated plaintext (the literal "hello world" is added to them)
MaxPlainLen == 3
\* how many distinct outputs randomBytes(KEY_LENGTH) / randomBytes(IV_LENGTH) has
NumKeys == 2
NumIvs == 2
\* the largest maxRetries a caller of fetchWithRetry passes
MaxRetriesBound == 3

\* ------------------------------------------------------------ text helpers
ReplaceAll(s, from, to) == [i \in DOMAIN s |-> IF s[i] = from THEN to ELSE s[i]]

RECURSIVE StripTrailingPad(_)
\* .replace(/=+$/, '')   ('=' is 61)
StripTrailingPad(s) ==
    IF Len(s) > 0 /\ s[Len(s)] = 61
    THEN StripTrailingPad(SubSeq(s, 1, Len(s) - 1))
    ELSE s

RECURSIVE PadTo4(_)
\* while (padded.length % 4) padded += '='
PadTo4(s) == IF Len(s) % 4 # 0 THEN PadTo4(Append(s, 61)) ELSE s

RECURSIVE Contains(_, _)
\* String.prototype.includes
Contains(s, sub) ==
    IF Len(sub) > Len(s) THEN FALSE
    ELSE IF SubSeq(s, 1, Len(sub)) = sub THEN TRUE
    ELSE Contains(Tail(s), sub)

\* ------------------------------------------------------------ Node's base64
\* the character of a 6-bit value in the standard alphabet A-Z a-z 0-9 + /
B64Char(v) ==
    IF v < 26 THEN 65 + v
    ELSE IF v < 52 THEN 71 + v
    ELSE IF v < 62 THEN v - 4
    ELSE IF v = 62 THEN 43 ELSE 47

\* the 6-bit value of a character; Node's decoder reads both alphabets
\* ('+' and '-' are 62, '/' and '_' are 63); 64 stands for "not a base64 character"
unbase64(c) ==
    IF c >= 65 /\ c <= 90 THEN c - 65
    ELSE IF c >= 97 /\ c <= 122 THEN c - 71
    ELSE IF c >= 48 /\ c <= 57 THEN c + 4
    ELSE IF c = 43 \/ c = 45 THEN 62
    ELSE IF c = 47 \/ c = 95 THEN 63
    ELSE 64

\* buf.toString('base64'): padded standard base64; every 3 bytes give 4
\* characters, a last group of 1 or 2 bytes is padded with '=' (61)
BufferToBase64(b) ==
    [k \in 1..(4 * ((Len(b) + 2) \div 3)) |->
        LET g  == 3 * ((k - 1) \div 4)
            b1 == b[g + 1]
            b2 == IF g + 2 <= Len(b) THEN b[g + 2] ELSE 0
            b3 == IF g + 3 <= Len(b) THEN b[g + 3] ELSE 0
        IN  CASE (k - 1) % 4 = 0 -> B64Char(b1 \div 4)
              [] (k - 1) % 4 = 1 -> B64Char((b1 % 4) * 16 + b2 \div 16)
              [] (k - 1) % 4 = 2 -> IF g + 2 > Len(b) THEN 61
                                    ELSE B64Char((b2 % 16) * 4 + b3 \div 64)
              [] OTHER           -> IF g + 3 > Len(b) THEN 61
                                    ELSE B64Char(b3 % 64)]

RECURSIVE Sextets(_)
\* the legal characters read by Buffer.from(s, 'base64'): decoding stops at
\* the first '=', any other character outside the alphabets is skipped
Sextets(s) ==
    IF Len(s) = 0 \/ s[1] = 61 THEN <<>>
    ELSE (IF unbase64(s[1]) < 64 THEN <<unbase64(s[1])>> ELSE <<>>) \o Sextets(Tail(s))

RECURSIVE SextetsToBytes(_)
SextetsToBytes(q) ==
    IF Len(q) < 2 THEN <<>>
    ELSE IF Len(q) = 2 THEN <<q[1] * 4 + q[2] \div 16>>
    ELSE IF Len(q) = 3
    THEN <<q[1] * 4 + q[2] \div 16, (q[2] % 16) * 16 + q[3] \div 4>>
    ELSE <<q[1] * 4 + q[2] \div 16, (q[2] % 16) * 16 + q[3] \div 4,
           (q[3] % 4) * 64 + q[4]>>
         \o SextetsToBytes(SubSeq(q, 5, Len(q)))

\* Buffer.from(s, 'base64'); it never throws
BufferFromBase64(s) == SextetsToBytes(Sextets(s))

\* ------------------------------------------------------------ crypto.ts: codec
toBase64Url_KeepPad(b) ==
    ReplaceAll(ReplaceAll(BufferToBase64(b), 43, 45), 47, 95)

toBase64Url(b) ==
    StripTrailingPad(ReplaceAll(ReplaceAll(BufferToBase64(b), 43, 45), 47, 95))

encodeKey(key) == toBase64Url(key)

\* decodeBase64Url applied to a string
decodeBase64Url(input) ==
    BufferFromBase64(ReplaceAll(ReplaceAll(PadTo4(input), 45, 43), 95, 47))

\* zeroBuffer: buf.fill(0)
zeroBuffer(buf) == [i \in DOMAIN buf |-> 0]

\* ------------------------------------------------------------ JavaScript values
\* A value as the code sees it: its typeof-like kind t, its text s (the
\* content of a string, String(v) of an array), n the length of an array, and
\* f the fields of a plain object.
JStr(s) == [t |-> "string", s |-> s, n |-> 0, f |-> <<>>]
JArr(s, n) == [t |-> "array", s |-> s, n |-> n, f |-> <<>>]
JOther(t) == [t |-> t, s |-> <<>>, n |-> 0, f |-> <<>>]
JObj(f) == [t |-> "object", s |-> <<>>, n |-> 0, f |-> f]
JUndefined == JOther("undefined")

\* v[name] for a value that is neither null nor undefined
GetField(v, name) ==
    IF v.t = "object" /\ name \in DOMAIN v.f THEN v.f[name] ELSE JUndefined

\* decodeBase64Url applied to whatever value the payload holds: reading
\* .length of undefined/null throws; a value with no numeric length, or an
\* array of length 0 mod 4, reaches .replace and throws; any other array is
\* turned into text by the first  padded += '='
JsDecodeBase64Url(v) ==
    IF v.t = "string" THEN [ok |-> TRUE, bytes |-> decodeBase64Url(v.s)]
    ELSE IF v.t = "array" /\ v.n % 4 # 0
    THEN [ok |-> TRUE, bytes |-> decodeBase64Url(Append(v.s, 61))]
    ELSE [ok |-> FALSE, bytes |-> <<>>]

\* ------------------------------------------------------------ AES-256-GCM
\* Node's cipher, idealised: a keystream XORed on the data (CTR) and a
\* 16-byte tag over key, iv and ciphertext in which every ciphertext byte
\* enters with an odd weight, so that the tags of two ciphertexts that
\* differ in one bit differ.
\* bit k of the XOR of two bytes, in place
XorBit(a, b, k) == (((a \div k) + (b \div k)) % 2) * k

\* the XOR of two bytes
Xor(a, b) ==
    XorBit(a, b, 1) + XorBit(a, b, 2) + XorBit(a, b, 4) + XorBit(a, b, 8)
    + XorBit(a, b, 16) + XorBit(a, b, 32) + XorBit(a, b, 64) + XorBit(a, b, 128)

KeyStreamByte(key, iv, i) ==
    (5 * key[((i - 1) % KEY_LENGTH) + 1] + 3 * iv[((i - 1) % IV_LENGTH) + 1] + 7 * i) % 256

\* cipher.update(data) ++ cipher.final(), and decipher.update likewise
GcmCrypt(key, iv, data) == [i \in 1..Len(data) |-> Xor(data[i], KeyStreamByte(key, iv, i))]

RECURSIVE ByteSum(_, _, _)
\* the sum of ct[lo..hi] mod 256, by halves
ByteSum(ct, lo, hi) ==
    IF lo > hi THEN 0
    ELSE IF lo = hi THEN ct[lo]
    ELSE (ByteSum(ct, lo, (lo + hi) \div 2)
          + ByteSum(ct, (lo + hi) \div 2 + 1, hi)) % 256

RECURSIVE IndexedSum(_, _, _)
\* the sum of i * ct[i] over lo..hi mod 256, by halves
IndexedSum(ct, lo, hi) ==
    IF lo > hi THEN 0
    ELSE IF lo = hi THEN (lo * ct[lo]) % 256
    ELSE (IndexedSum(ct, lo, (lo + hi) \div 2)
          + IndexedSum(ct, (lo + hi) \div 2 + 1, hi)) % 256

\* the sum over i of (2 * (i + j) + 1) * ct[i], mod 256, from the two sums
WeightedSum(byteSum, indexedSum, j) == (2 * indexedSum + (2 * j + 1) * byteSum) % 256

\* cipher.getAuthTag()
GcmTag(key, iv, ct) ==
    LET byteSum    == ByteSum(ct, 1, Len(ct))
        indexedSum == IndexedSum(ct, 1, Len(ct))
    IN  [j \in 1..TAG_LENGTH |->
            (key[j] + 3 * key[j + TAG_LENGTH] + iv[((j - 1) % IV_LENGTH) + 1]
             + Len(ct) + WeightedSum(byteSum, indexedSum, j)) % 256]

\* ------------------------------------------------------------ crypto.ts: envelope
\* encrypt, on the key and iv that randomBytes returned
encrypt(secret, key, iv) ==
    [key |-> key, iv |-> iv,
     ciphertext |-> GcmCrypt(key, iv, secret),
     tag |-> GcmTag(key, iv, GcmCrypt(key, iv, secret))]

createPayload_TagAsCiphertext(r) ==
    JObj([iv |-> JStr(toBase64Url(r.iv)),
          tag |-> JStr(toBase64Url(r.tag)),
          ciphertext |-> JStr(toBase64Url(r.tag))])

createPayload(r) ==
    JObj([iv |-> JStr(toBase64Url(r.iv)),
          tag |-> JStr(toBase64Url(r.tag)),
          ciphertext |-> JStr(toBase64Url(r.ciphertext))])

\* what a call of decryptToBytes ends in: the bytes returned, or the error
\* thrown; cipher tells whether createDecipheriv was called
Returned(bytes) == [ok |-> TRUE, bytes |-> bytes, err |-> "none", cipher |-> TRUE]
Thrown(err, cipher) == [ok |-> FALSE, bytes |-> <<>>, err |-> err, cipher |-> cipher]
NotCalled == [ok |-> FALSE, bytes |-> <<>>, err |-> "not called", cipher |-> FALSE]

\* the decipher with final() left out: the tag is never verified
GcmOpen_NoFinal(key, iv, tag, ct) == Returned(GcmCrypt(key, iv, ct))

\* decipher.setAuthTag(tag); update; final() throws unless the tag matches
GcmOpen(key, iv, tag, ct) ==
    IF GcmTag(key, iv, ct) = tag
    THEN Returned(GcmCrypt(key, iv, ct))
    ELSE Thrown("AuthenticationFailed", TRUE)

decryptToBytes_Body(payload, key) ==
    LET iv == JsDecodeBase64Url(GetField(payload, "iv"))
        tag == JsDecodeBase64Url(GetField(payload, "tag"))
        ciphertext == JsDecodeBase64Url(GetField(payload, "ciphertext"))
    IN  IF ~iv.ok \/ ~tag.ok \/ ~ciphertext.ok THEN Thrown("TypeError", FALSE)
        ELSE IF Len(iv.bytes) # IV_LENGTH THEN Thrown("InvalidIvLength", FALSE)
        ELSE IF Len(tag.bytes) # TAG_LENGTH THEN Thrown("InvalidTagLength", FALSE)
        ELSE GcmOpen(key, iv.bytes, tag.bytes, ciphertext.bytes)

\* decryptToBytes with the fields decoded and checked before the key
decryptToBytes_PayloadFirst(payload, key) ==
    IF payload.t \in {"null", "undefined"} THEN Thrown("TypeError", FALSE)
    ELSE IF ~decryptToBytes_Body(payload, [i \in 1..KEY_LENGTH |-> 0]).cipher
    THEN decryptToBytes_Body(payload, [i \in 1..KEY_LENGTH |-> 0])
    ELSE IF Len(key) # KEY_LENGTH THEN Thrown("InvalidKeyLength", FALSE)
    ELSE decryptToBytes_Body(payload, key)

decryptToBytes(payload, key) ==
    IF Len(key) # KEY_LENGTH THEN Thrown("InvalidKeyLength", FALSE)
    ELSE IF payload.t \in {"null", "undefined"} THEN Thrown("TypeError", FALSE)
    ELSE decryptToBytes_Body(payload, key)

\* ------------------------------------------------------------ validation: token grammar
IsDigit(c) == c >= 48 /\ c <= 57
IsUpper(c) == c >= 65 /\ c <= 90
IsLower(c) == c >= 97 /\ c <= 122
\* [0-9a-f] under the i flag
IsHex(c) == IsDigit(c) \/ (c >= 97 /\ c <= 102) \/ (c >= 65 /\ c <= 70)
\* [A-Za-z0-9+/]
IsBase64Std(c) == IsDigit(c) \/ IsUpper(c) \/ IsLower(c) \/ c = 43 \/ c = 47
\* [A-Za-z0-9_-]
IsBase64Url(c) == IsDigit(c) \/ IsUpper(c) \/ IsLower(c) \/ c = 95 \/ c = 45
\* [A-Za-z0-9+/=_-]
IsKeyChar(c) == IsBase64Std(c) \/ c = 61 \/ c = 95 \/ c = 45
\* what String.prototype.trim removes (space, tab, line feed, carriage return)
IsSpace(c) == c \in {32, 9, 10, 13}

RECURSIVE TrimLeft(_)
TrimLeft(s) == IF Len(s) > 0 /\ IsSpace(s[1]) THEN TrimLeft(Tail(s)) ELSE s
RECURSIVE TrimRight(_)
TrimRight(s) ==
    IF Len(s) > 0 /\ IsSpace(s[Len(s)]) THEN TrimRight(SubSeq(s, 1, Len(s) - 1)) ELSE s
Trim(s) == TrimRight(TrimLeft(s))

\* s.indexOf(':'), counted from 1; 0 when there is none   (':' is 58)
IndexOfColon(s) ==
    IF \E i \in DOMAIN s : s[i] = 58
    THEN CHOOSE i \in DOMAIN s : s[i] = 58 /\ \A j \in 1..(i - 1) : s[j] # 58
    ELSE 0

\* UUID_REGEX: 8-4-4-4-12 hex digits, '4' opening the third group and one of
\* 8 9 a b opening the fourth; /i
UuidVersionChar_AnyHex(c) == IsHex(c)

UuidVersionChar(c) == c = 52

UuidVariantChar_AnyHex(c) == IsHex(c)

UuidVariantChar(c) == c \in {56, 57, 97, 98, 65, 66}

UUID_REGEX(s) ==
    /\ Len(s) = 36
    /\ \A i \in 1..36 :
          IF i \in {9, 14, 19, 24} THEN s[i] = 45
          ELSE IF i = 15 THEN UuidVersionChar(s[i])
          ELSE IF i = 20 THEN UuidVariantChar(s[i])
          ELSE IsHex(s[i])

validateUUID(uuid) == UUID_REGEX(uuid)

\* STASH_FORMAT_REGEX: the uuid, a colon, one or more key characters
STASH_FORMAT_REGEX(s) ==
    /\ Len(s) >= 38
    /\ UUID_REGEX(SubSeq(s, 1, 36))
    /\ s[37] = 58
    /\ \A i \in 38..Len(s) : IsKeyChar(s[i])

\* BASE64URL_REGEX
BASE64URL_REGEX(s) == Len(s) >= 1 /\ \A i \in DOMAIN s : IsBase64Url(s[i])

\* BASE64_REGEX: groups of four, the last one possibly XX== or XXX=
BASE64_REGEX(s) ==
    /\ Len(s) % 4 = 0
    /\ \A i \in 1..(Len(s) - 2) : IsBase64Std(s[i])
    /\ Len(s) > 0 =>
          \/ IsBase64Std(s[Len(s) - 1]) /\ IsBase64Std(s[Len(s)])
          \/ IsBase64Std(s[Len(s) - 1]) /\ s[Len(s)] = 61
          \/ s[Len(s) - 1] = 61 /\ s[Len(s)] = 61

validateBase64(input) ==
    IF Len(input) = 0 THEN FALSE
    ELSE IF BASE64URL_REGEX(input) THEN TRUE
    ELSE IF ~BASE64_REGEX(input) THEN FALSE
    ELSE Len(input) % 4 = 0

\* s.endsWith('==') ? 2 : s.endsWith('=') ? 1 : 0
PadChars(s) ==
    IF Len(s) >= 2 /\ s[Len(s)] = 61 /\ s[Len(s) - 1] = 61 THEN 2
    ELSE IF Len(s) >= 1 /\ s[Len(s)] = 61 THEN 1 ELSE 0

decodedLenB64Any_KeepPad(s) ==
    IF \E i \in DOMAIN s : s[i] = 61
    THEN IF Len(s) % 4 # 0 THEN -1 ELSE (Len(s) \div 4) * 3 - PadChars(s)
    ELSE ((Len(s) + ((4 - (Len(s) % 4)) % 4)) * 3) \div 4

decodedLenB64Any(s) ==
    IF \E i \in DOMAIN s : s[i] = 61
    THEN IF Len(s) % 4 # 0 THEN -1 ELSE (Len(s) \div 4) * 3 - PadChars(s)
    ELSE LET mod == Len(s) % 4
             addPad == IF mod # 0 THEN 4 - mod ELSE 0
         IN  ((Len(s) + addPad) * 3) \div 4 - addPad

\* a result of validateAndParseStashFormat; decodes counts the calls of
\* Buffer.from(padded, 'base64') made on the way to it
ParseOk(id, key, decodes) ==
    [success |-> TRUE, error |-> "", id |-> id, key |-> key, decodes |-> decodes]
ParseError(error, decodes) ==
    [success |-> FALSE, error |-> error, id |-> <<>>, key |-> <<>>, decodes |-> decodes]

\* s.split(':', 2): the text before the first colon and the text between the
\* first colon and the second (or the end)
SplitId(s) == SubSeq(s, 1, IndexOfColon(s) - 1)
SplitKey(s) ==
    LET rest == SubSeq(s, IndexOfColon(s) + 1, Len(s))
    IN  IF IndexOfColon(rest) = 0 THEN rest ELSE SubSeq(rest, 1, IndexOfColon(rest) - 1)

diagnoseMismatch_KeyFirst(s) ==
    IF IndexOfColon(s) = 0
    THEN ParseError("Missing colon separator. Expected format: uuid:base64urlkey", 0)
    ELSE IF Len(SplitKey(s)) = 0 THEN ParseError("Missing key after colon", 0)
    ELSE IF ~validateUUID(SplitId(s)) THEN ParseError("Invalid uuid format", 0)
    ELSE ParseError("Invalid stash token format", 0)

\* validateAndParseStashFormat, if (!match) { ... }: the diagnostic for a text
\* that STASH_FORMAT_REGEX does not match
diagnoseMismatch(s) ==
    IF IndexOfColon(s) = 0
    THEN ParseError("Missing colon separator. Expected format: uuid:base64urlkey", 0)
    ELSE IF ~validateUUID(SplitId(s)) THEN ParseError("Invalid uuid format", 0)
    ELSE IF Len(SplitKey(s)) = 0 THEN ParseError("Missing key after colon", 0)
    ELSE ParseError("Invalid stash token format", 0)

parseKey_DecodeFirst(id, key) ==
    IF ~validateBase64(key) THEN ParseError("Invalid base64url key", 0)
    ELSE IF Len(decodeBase64Url(key)) # KEY_LENGTH
    THEN ParseError("Invalid key length: expected 32 bytes", 1)
    ELSE ParseOk(id, key, 1)

\* validateAndParseStashFormat after the match: the key is checked, its
\* decoded length computed, and only then Buffer.from(padded, 'base64') is
\* called; that call never throws, so its catch is not reached
parseKey(id, key) ==
    IF ~validateBase64(key) THEN ParseError("Invalid base64url key", 0)
    ELSE IF decodedLenB64Any(key) # KEY_LENGTH
    THEN ParseError("Invalid key length: expected 32 bytes", 0)
    ELSE ParseOk(id, key, 1)

validateAndParseStashFormat(input) ==
    LET s == Trim(input)
    IN  IF Len(s) = 0 THEN ParseError("Stash token is empty", 0)
        ELSE IF ~STASH_FORMAT_REGEX(s) THEN diagnoseMismatch(s)
        ELSE parseKey(SubSeq(s, 1, 36), SubSeq(s, 38, Len(s)))

\* extractUUID; the empty text stands for null
extractUUID_AnyKey(input) ==
    LET s == Trim(input)
    IN  IF IndexOfColon(s) # 0 /\ validateUUID(SplitId(s)) THEN SplitId(s)
        ELSE IF validateUUID(s) THEN s ELSE <<>>

extractUUID(input) ==
    LET s == Trim(input)
    IN  IF validateAndParseStashFormat(s).success
        THEN validateAndParseStashFormat(s).id
        ELSE IF validateUUID(s) THEN s ELSE <<>>

\* the token formatted from the key buffer after it was wiped
formatStashToken_Wiped(id, key) == id \o <<58>> \o encodeKey([i \in DOMAIN key |-> 0])

\* formatStashToken: `${id}:${encodeKey(key)}`
formatStashToken(id, key) == id \o <<58>> \o encodeKey(key)

\* decodeStashToken: ok with the id and the key, or the error thrown
decodeStashToken(token) ==
    LET colonIndex == IndexOfColon(token)
        id == Trim(SubSeq(token, 1, colonIndex - 1))
        key == decodeBase64Url(Trim(SubSeq(token, colonIndex + 1, Len(token))))
    IN  IF colonIndex = 0
        THEN [ok |-> FALSE, error |-> "missing colon separator", id |-> <<>>, key |-> <<>>]
        ELSE IF Len(key) # KEY_LENGTH
        THEN [ok |-> FALSE, error |-> "Invalid key length", id |-> <<>>, key |-> <<>>]
        ELSE [ok |-> TRUE, error |-> "", id |-> id, key |-> key]

\* ------------------------------------------------------------ crypto.ts: wire payload
\* validateBase64AndGetLength without its test of the alphabet
validateBase64AndGetLength_AnyChar(input, expected) ==
    LET padded == Len(PadTo4(input.s))
        decodedLength == (padded * 3) \div 4 - (padded - Len(input.s))
    IN  IF input.t # "string" \/ Len(input.s) = 0
        THEN [ok |-> FALSE, len |-> 0, error |-> "Base64url field must be a non-empty string"]
        ELSE IF expected # -1 /\ decodedLength # expected
        THEN [ok |-> FALSE, len |-> decodedLength, error |-> "Invalid decoded length"]
        ELSE [ok |-> TRUE, len |-> decodedLength, error |-> ""]

\* validateBase64AndGetLength: the decoded length, or the error thrown;
\* expected = -1 stands for "no expected length"
validateBase64AndGetLength(input, expected) ==
    LET padded == Len(PadTo4(input.s))
        decodedLength == (padded * 3) \div 4 - (padded - Len(input.s))
    IN  IF input.t # "string" \/ Len(input.s) = 0
        THEN [ok |-> FALSE, len |-> 0, error |-> "Base64url field must be a non-empty string"]
        ELSE IF \E i \in DOMAIN input.s : ~(IsDigit(input.s[i]) \/ IsUpper(input.s[i])
                                            \/ IsLower(input.s[i]) \/ input.s[i] \in {95, 45})
        THEN [ok |-> FALSE, len |-> 0, error |-> "Invalid base64url format"]
        ELSE IF expected # -1 /\ decodedLength # expected
        THEN [ok |-> FALSE, len |-> decodedLength, error |-> "Invalid decoded length"]
        ELSE [ok |-> TRUE, len |-> decodedLength, error |-> ""]

\* what parsePayload ends in: the payload returned, or the error thrown and
\* the field it names
PayloadError(error, field) ==
    [ok |-> FALSE, error |-> error, field |-> field, payload |-> JUndefined]

\* the first required field that is absent or no string, "" when there is none
FirstBadField(parsed) ==
    IF "iv" \notin DOMAIN parsed.f \/ parsed.f["iv"].t # "string" THEN "iv"
    ELSE IF "tag" \notin DOMAIN parsed.f \/ parsed.f["tag"].t # "string" THEN "tag"
    ELSE IF "ciphertext" \notin DOMAIN parsed.f \/ parsed.f["ciphertext"].t # "string"
    THEN "ciphertext"
    ELSE ""

\* !parsed || typeof parsed !== 'object' is false: typeof of an array is 'object'
IsObject(parsed) == parsed.t \in {"object", "array"}

\* parsePayload, on the value JSON.parse returned; JSON.parse throws a
\* SyntaxError on a text that is not JSON
parsePayload(parsed) ==
    IF parsed.t = "not json" THEN PayloadError("SyntaxError", "")
    ELSE IF ~IsObject(parsed) THEN PayloadError("Payload must be an object", "")
    ELSE IF FirstBadField(parsed) # ""
    THEN IF FirstBadField(parsed) \notin DOMAIN parsed.f
         THEN PayloadError("Missing required field", FirstBadField(parsed))
         ELSE PayloadError("Field must be a string", FirstBadField(parsed))
    ELSE IF ~validateBase64AndGetLength(parsed.f["iv"], IV_LENGTH).ok
    THEN PayloadError(validateBase64AndGetLength(parsed.f["iv"], IV_LENGTH).error, "iv")
    ELSE IF ~validateBase64AndGetLength(parsed.f["tag"], TAG_LENGTH).ok
    THEN PayloadError(validateBase64AndGetLength(parsed.f["tag"], TAG_LENGTH).error, "tag")
    ELSE IF ~validateBase64AndGetLength(parsed.f["ciphertext"], -1).ok
    THEN PayloadError(validateBase64AndGetLength(parsed.f["ciphertext"], -1).error,
                      "ciphertext")
    ELSE IF validateBase64AndGetLength(parsed.f["ciphertext"], -1).len = 0
    THEN PayloadError("Ciphertext cannot be empty", "ciphertext")
    ELSE [ok |-> TRUE, error |-> "", field |-> "",
          payload |-> JObj([iv |-> parsed.f["iv"], tag |-> parsed.f["tag"],
                            ciphertext |-> parsed.f["ciphertext"]])]

\* Buffer.byteLength(encodePayload(payload)): JSON.stringify of the three
\* fields, {"iv":"..","tag":"..","ciphertext":".."}, 34 characters around them
EncodedPayloadLength(payload) ==
    34 + Len(payload.f["iv"].s) + Len(payload.f["tag"].s) + Len(payload.f["ciphertext"].s)

\* buf.toString('utf8') for the texts of the model: an ASCII byte is its
\* character, a byte that starts no valid sequence becomes U+FFFD
Utf8ToString(bytes) == [i \in DOMAIN bytes |-> IF bytes[i] < 128 THEN bytes[i] ELSE 65533]

\* ------------------------------------------------------------ state
VARIABLES
    \* the envelope on its own: encrypt, createPayload, decryptToBytes
    cryptoPc,           \* "Off", "Idle", "Sealed", "Wire", "Open", "Rejected"
    secretBytes,        \* the plaintext given to encrypt
    encryptionResult,   \* what encrypt returned
    wirePayload,        \* the payload handed to decryptToBytes
    tampered,           \* the bit flipped in the payload, if any
    decKey,             \* the key handed to decryptToBytes
    decrypted,          \* what decryptToBytes ended in
    \* one call of fetchWithRetry
    fetchPc,            \* "Off", "LoopHead", "InFlight", "Backoff", "Returned", "Thrown"
    fetchVariant,       \* "chained": options.signal is chained to the timeout;
                        \* "timeoutOnly": only the per-attempt timeout aborts
    attempt,            \* the loop variable
    maxRetries,         \* the parameter
    signal,             \* the caller's AbortSignal: given or not, aborted or not
    request,            \* url and options of the call
    fetchLog,           \* "request" for every fetch() issued, "delay" for every backoff
    netReply,           \* how the last fetch() settled
    fetchResult,        \* what the call returned or threw
    settleLog,          \* for every fetch() that settled: the status of its
                        \* response, 0 for a rejection (history)
    baseDelay,          \* the parameter
    backoffDelay,       \* the delay being waited for, in ms; 0 outside a backoff
    \* one run of a command against the backend
    cmd,                \* "none", "enstash", "destash", "unstash"
    cmdPc,              \* "Off", "Start", "Validated", "AwaitFetch", "ReadBody", "Exited"
    rawInput,           \* program.args[0]: given or not, and its text
    uuid,               \* what extractUUID returned
    stdout,             \* the texts written to process.stdout
    stderr,             \* the messages written by console.error
    exitCode,           \* -1 while the process runs
    randomKey,          \* the key randomBytes returned to encrypt (history)
    stash,              \* the backend's record of the stash: state and body
    servedAttempt,      \* the attempt whose request the backend has handled
    pending,            \* the backend's reply to that request, on its way
    served,             \* the backend handed out the payload and consumed the stash
    delivered,          \* how much of that reply reached the command:
                        \* "nothing", "headers", "body"
    storedCount,        \* the stashes the backend stored for the POSTs of this run
    \* a stash token formatted, parsed and decoded
    tokenPc,            \* "Off", "Parts", "Given", "Parsed", "Decoded"
    tokenOrigin,        \* the id and key formatStashToken is applied to, if any
    tokenInput,         \* the token text
    parseResult,        \* what validateAndParseStashFormat returned
    tokenParts,         \* what decodeStashToken returned or threw
    uuidValid,          \* what validateUUID returned for the token text
    extracted,          \* what extractUUID returned for the token text
    \* a wire payload parsed
    payloadPc,          \* "Off", "Given", "Parsed"
    payloadInput,       \* the value the text stands for, or that it is no JSON
    payloadResult,      \* what parsePayload returned or threw
    \* readFromStdin, event by event
    stdinPc,            \* "Off", "Called", "Reading", "Resolved", "Rejected"
    stdinIsTTY,         \* process.stdin.isTTY
    readableEnded,      \* process.stdin.readableEnded at the call
    stdinSignal,        \* the caller's AbortSignal: given or not, aborted or not
    stdinSource,        \* the chunks the stream has still to emit, then it ends
    received,           \* every chunk buffer the stream emitted, as it is now
    chunks,             \* the chunk list: indices of received
    total,              \* the byte count of onData
    done,               \* finish has run
    timer,              \* when the idle timer fires, -1 when none is set
    clock,              \* the time since the call, in ms
    lastChunkAt,        \* when the last chunk was taken, the start if none (history)
    stdinResult,        \* how the promise settled
    listeners,          \* the events readFromStdin has a listener for
    flowing,            \* process.stdin is resumed
    lateEvents,         \* the events emitted after the promise settled
    \* encrypt called again and again
    randomDraws,        \* the calls of randomBytes so far: size asked, bytes returned
    encryptCalls,       \* the calls of encrypt so far: the draws each made, its result
    \* the length computations on one text
    lenPc,              \* "Off", "Given", "Computed"
    lenInput,           \* the text
    lenResult           \* what each computation gave, and what the decoder gives

cryptoVars == <<cryptoPc, secretBytes, encryptionResult, wirePayload, tampered,
                decKey, decrypted>>
fetchVars == <<fetchPc, fetchVariant, attempt, maxRetries, signal, request,
               fetchLog, netReply, fetchResult, settleLog, baseDelay, backoffDelay>>
cmdVars == <<cmd, cmdPc, rawInput, uuid, stdout, stderr, exitCode, randomKey>>
backendVars == <<stash, servedAttempt, pending, served, delivered, storedCount>>
tokenVars == <<tokenPc, tokenOrigin, tokenInput, parseResult, tokenParts,
               uuidValid, extracted>>
payloadVars == <<payloadPc, payloadInput, payloadResult>>
stdinVars == <<stdinPc, stdinIsTTY, readableEnded, stdinSignal, stdinSource,
               received, chunks, total, done, timer, clock, lastChunkAt, stdinResult,
               listeners, flowing, lateEvents>>
encryptVars == <<randomDraws, encryptCalls>>
lengthVars == <<lenPc, lenInput, lenResult>>
vars == <<cryptoVars, fetchVars, cmdVars, backendVars, tokenVars, payloadVars, stdinVars,
          encryptVars, lengthVars>>

\* ------------------------------------------------------------ inputs
\* the outputs of randomBytes the model draws from
KeyOf(k) == [i \in 1..KEY_LENGTH |-> (37 * k + 11 * i + 200) % 256]
IvOf(k) == [i \in 1..IV_LENGTH |-> (91 * k + 29 * i + 250) % 256]
Keys == {KeyOf(k) : k \in 1..NumKeys}
Ivs == {IvOf(k) : k \in 1..NumIvs}

\* keys a caller may hand to decryptToBytes besides the generated ones
ZeroKey == [i \in 1..KEY_LENGTH |-> 0]
ShortKey == [i \in 1..(KEY_LENGTH - 1) |-> 7]
DecryptKeys == Keys \cup {ZeroKey, ShortKey}

\* "hello world"
HelloWorld == <<104, 101, 108, 108, 111, 32, 119, 111, 114, 108, 100>>

SeqsUpTo(S, n) == UNION {[1..m -> S] : m \in 1..n}
PlainTexts == SeqsUpTo({0, 255}, MaxPlainLen) \cup {HelloWorld}

NoEnvelope == [key |-> <<>>, iv |-> <<>>, ciphertext |-> <<>>, tag |-> <<>>]
NoTamper == [field |-> "none", byte |-> 0, bit |-> 0]

FlipBit(x, b) == IF (x \div (2 ^ b)) % 2 = 1 THEN x - 2 ^ b ELSE x + 2 ^ b
FlipBitAt(bytes, i, b) == [bytes EXCEPT ![i] = FlipBit(bytes[i], b)]

\* ------------------------------------------------------------ the envelope alone
CryptoOff ==
    /\ cryptoPc = "Off"
    /\ secretBytes = <<>>
    /\ encryptionResult = NoEnvelope
    /\ wirePayload = JUndefined
    /\ tampered = NoTamper
    /\ decKey = <<>>
    /\ decrypted = NotCalled

CryptoStart ==
    /\ cryptoPc = "Idle"
    /\ secretBytes \in PlainTexts
    /\ encryptionResult = NoEnvelope
    /\ wirePayload = JUndefined
    /\ tampered = NoTamper
    /\ decKey = <<>>
    /\ decrypted = NotCalled

CryptoEncrypt ==
    /\ cryptoPc = "Idle"
    /\ \E key \in Keys, iv \in Ivs :
           encryptionResult' = encrypt(secretBytes, key, iv)
    /\ cryptoPc' = "Sealed"
    /\ UNCHANGED <<secretBytes, wirePayload, tampered, decKey, decrypted>>
    /\ UNCHANGED <<fetchVars, cmdVars, backendVars>>
    /\ UNCHANGED <<tokenVars, payloadVars, stdinVars, encryptVars, lengthVars>>

CryptoCreatePayload ==
    /\ cryptoPc = "Sealed"
    /\ wirePayload' = createPayload(encryptionResult)
    /\ cryptoPc' = "Wire"
    /\ UNCHANGED <<secretBytes, encryptionResult, tampered, decKey, decrypted>>
    /\ UNCHANGED <<fetchVars, cmdVars, backendVars>>
    /\ UNCHANGED <<tokenVars, payloadVars, stdinVars, encryptVars, lengthVars>>

\* somebody flips one bit of the tag or of the ciphertext of the payload
CryptoTamper ==
    /\ cryptoPc = "Wire"
    /\ tampered = NoTamper
    /\ \E field \in {"tag", "ciphertext"} :
       \E i \in 1..Len(encryptionResult[field]), b \in 0..7 :
           /\ wirePayload' = JObj([wirePayload.f EXCEPT ![field] =
                  JStr(toBase64Url(FlipBitAt(encryptionResult[field], i, b)))])
           /\ tampered' = [field |-> field, byte |-> i, bit |-> b]
    /\ UNCHANGED <<cryptoPc, secretBytes, encryptionResult, decKey, decrypted>>
    /\ UNCHANGED <<fetchVars, cmdVars, backendVars>>
    /\ UNCHANGED <<tokenVars, payloadVars, stdinVars, encryptVars, lengthVars>>

CryptoDecrypt ==
    /\ cryptoPc = "Wire"
    /\ \E key \in DecryptKeys :
           /\ decKey' = key
           /\ decrypted' = decryptToBytes(wirePayload, key)
    /\ cryptoPc' = IF decrypted'.ok THEN "Open" ELSE "Rejected"
    /\ UNCHANGED <<secretBytes, encryptionResult, wirePayload, tampered>>
    /\ UNCHANGED <<fetchVars, cmdVars, backendVars>>
    /\ UNCHANGED <<tokenVars, payloadVars, stdinVars, encryptVars, lengthVars>>

\* ------------------------------------------------------------ fetchWithRetry
\* how a fetch() settles, and what fetchWithRetry returns or throws:
\* a response (its status and body) or an error (its name and message)
Response(status, body) ==
    [kind |-> "response", status |-> status, body |-> body,
     name |-> "", message |-> "", attempts |-> 0]
Error(name, message) ==
    [kind |-> "error", status |-> 0, body |-> JUndefined,
     name |-> name, message |-> message, attempts |-> 0]
\* new Error(`HTTP ${response.status} after ${maxRetries + 1} attempts`)
HttpError(status, attempts) ==
    [kind |-> "error", status |-> status, body |-> JUndefined,
     name |-> "Error", message |-> "HTTP <status> after <attempts> attempts",
     attempts |-> attempts]
NoReply ==
    [kind |-> "none", status |-> 0, body |-> JUndefined,
     name |-> "", message |-> "", attempts |-> 0]
\* the rejection of an aborted fetch(), and of an already aborted signal
AbortError == Error("AbortError", "This operation was aborted")
AbortedBeforeRequest == Error("AbortError", "Request was aborted")

\* response.ok
ResponseOk(r) == r.status >= 200 /\ r.status <= 299

\* the fragments the retry test looks for that a message contains
MessageParts(message) ==
    CASE message = "fetch failed" -> {"fetch failed"}
      [] message = "read ECONNRESET" -> {"ECONNRESET"}
      [] message = "connect ETIMEDOUT 10.0.0.1:443" -> {"ETIMEDOUT"}
      [] message = "getaddrinfo ENOTFOUND api.stasher.dev" -> {"ENOTFOUND"}
      [] message = "connect ECONNREFUSED 127.0.0.1:443" -> {"ECONNREFUSED"}
      [] message = "network timeout" -> {"timeout"}
      [] message = "socket hang up" -> {"socket hang up"}
      [] OTHER -> {}

\* message.includes(part)
MessageIncludes(message, part) == part \in MessageParts(message)

isRetryableError_AnyTypeError(error) == error.name = "TypeError"

isRetryableError(error) ==
    /\ error.name = "TypeError"
    /\ \/ MessageIncludes(error.message, "fetch failed")
       \/ MessageIncludes(error.message, "ECONNRESET")
       \/ MessageIncludes(error.message, "ETIMEDOUT")
       \/ MessageIncludes(error.message, "ENOTFOUND")
       \/ MessageIncludes(error.message, "ECONNREFUSED")
       \/ MessageIncludes(error.message, "timeout")
       \/ MessageIncludes(error.message, "socket hang up")

RetryStatus_Any5xx(status) == status >= 500

\* [500, 502, 503, 504].includes(response.status)
RetryStatus(status) == status \in {500, 502, 503, 504}

\* what the history keeps of a settled fetch()
SettleEntry(reply) == IF reply.kind = "response" THEN reply.status ELSE 0

MAX_DELAY == 10000

\* fetchWithRetry's defaults for maxRetries and baseDelay
DefaultMaxRetries == 3
DefaultBaseDelay == 1000

\* the values of Math.random() * 1000 the model draws from, in ms
Jitters == {0, 999}

Min(a, b) == IF a < b THEN a ELSE b

\* the backoff without its ceiling
computeBackoff_NoCeiling(attempt_, base, max, jitter) == base * 2 ^ attempt_ + jitter

\* computeBackoff, on the value jitter of Math.random() * 1000
computeBackoff(attempt_, base, max, jitter) == Min(base * 2 ^ attempt_ + jitter, max)

\* attempt === maxRetries
IsLastAttempt_OneMore == attempt = maxRetries + 1

IsLastAttempt == attempt = maxRetries

FetchOff ==
    /\ fetchPc = "Off"
    /\ fetchVariant = "chained"
    /\ attempt = 0
    /\ maxRetries = 0
    /\ signal = [given |-> FALSE, aborted |-> FALSE]
    /\ request = [method |-> "", endpoint |-> "", arg |-> <<>>, body |-> JUndefined]
    /\ fetchLog = <<>>
    /\ netReply = NoReply
    /\ fetchResult = NoReply
    /\ settleLog = <<>>
    /\ baseDelay = 0
    /\ backoffDelay = 0

\* no command is running and there is no backend
CmdOff ==
    /\ cmd = "none"
    /\ cmdPc = "Off"
    /\ rawInput = [given |-> FALSE, text |-> <<>>]
    /\ uuid = <<>>
    /\ stdout = <<>>
    /\ stderr = <<>>
    /\ exitCode = -1
    /\ randomKey = <<>>
    /\ stash = [state |-> "absent", body |-> JUndefined]
    /\ servedAttempt = -1
    /\ pending = NoReply
    /\ served = FALSE
    /\ delivered = "nothing"
    /\ storedCount = 0

\* no token is being parsed
NoOrigin == [formatted |-> FALSE, id |-> <<>>, key |-> <<>>]
NoParse == ParseError("not called", 0)
NoParts == [ok |-> FALSE, error |-> "not called", id |-> <<>>, key |-> <<>>]
NotExtracted == [called |-> FALSE, null |-> TRUE, uuid |-> <<>>]

\* no payload is being parsed
NoPayloadResult == PayloadError("not called", "")

PayloadOff ==
    /\ payloadPc = "Off"
    /\ payloadInput = JUndefined
    /\ payloadResult = NoPayloadResult

\* no length is being computed
NoLengths == [any |-> -2, field |-> -2, decoded |-> -2]

LengthOff ==
    /\ lenPc = "Off"
    /\ lenInput = <<>>
    /\ lenResult = NoLengths

\* encrypt is not being called in a row
EncryptOff ==
    /\ randomDraws = <<>>
    /\ encryptCalls = <<>>

\* stdin is not being read
NotSettled == [settled |-> FALSE, ok |-> FALSE, error |-> "", out |-> <<>>]

StdinOff ==
    /\ stdinPc = "Off"
    /\ stdinIsTTY = FALSE
    /\ readableEnded = FALSE
    /\ stdinSignal = [given |-> FALSE, aborted |-> FALSE]
    /\ stdinSource = <<>>
    /\ received = <<>>
    /\ chunks = <<>>
    /\ total = 0
    /\ done = FALSE
    /\ timer = -1
    /\ clock = 0
    /\ lastChunkAt = 0
    /\ stdinResult = NotSettled
    /\ listeners = {}
    /\ flowing = FALSE
    /\ lateEvents = <<>>

TokenOff ==
    /\ tokenPc = "Off"
    /\ tokenOrigin = NoOrigin
    /\ tokenInput = <<>>
    /\ parseResult = NoParse
    /\ tokenParts = NoParts
    /\ uuidValid = "not called"
    /\ extracted = NotExtracted

\* the call ends: return response / throw error
FetchEnd(pc, result) ==
    /\ fetchPc' = pc
    /\ fetchResult' = result
    /\ UNCHANGED <<attempt, fetchLog, backoffDelay>>

\* the retry without its delay
FetchBackoff_NoDelay ==
    /\ fetchPc' = "Backoff"
    /\ UNCHANGED <<attempt, fetchResult, fetchLog, backoffDelay>>

\* await delay(computeBackoff(attempt, baseDelay, MAX_DELAY)) begins
FetchBackoff ==
    /\ fetchPc' = "Backoff"
    /\ fetchLog' = Append(fetchLog, "delay")
    /\ \E jitter \in Jitters :
           backoffDelay' = computeBackoff(attempt, baseDelay, MAX_DELAY, jitter)
    /\ UNCHANGED <<attempt, fetchResult>>

\* the top of the loop body up to the call of fetch(): an already aborted
\* caller signal ends the call, otherwise the request is issued
FetchAttemptStart ==
    /\ fetchPc = "LoopHead"
    /\ IF attempt > maxRetries
       THEN /\ FetchEnd("Thrown", Error("Error", "Max retries exceeded"))
       ELSE IF fetchVariant = "chained" /\ signal.given /\ signal.aborted
       THEN /\ FetchEnd("Thrown", AbortedBeforeRequest)
       ELSE /\ fetchPc' = "InFlight"
            /\ fetchLog' = Append(fetchLog, "request")
            /\ UNCHANGED <<attempt, fetchResult, backoffDelay>>
    /\ UNCHANGED <<fetchVariant, maxRetries, signal, request, netReply, settleLog,
                   baseDelay>>
    /\ UNCHANGED <<cryptoVars, cmdVars, backendVars>>
    /\ UNCHANGED <<tokenVars, payloadVars, stdinVars, encryptVars, lengthVars>>

\* the awaited fetch() settles with reply, and the code after it runs up to
\* the next await or to the end of the call
FetchSettle(reply) ==
    /\ fetchPc = "InFlight"
    /\ netReply' = reply
    /\ settleLog' = Append(settleLog, SettleEntry(reply))
    /\ IF reply.kind = "response"
       THEN IF ~ResponseOk(reply) /\ RetryStatus(reply.status)
            THEN IF IsLastAttempt
                 THEN FetchEnd("Thrown", HttpError(reply.status, maxRetries + 1))
                 ELSE FetchBackoff
            ELSE FetchEnd("Returned", reply)
       ELSE IF ~isRetryableError(reply) \/ IsLastAttempt
            THEN FetchEnd("Thrown", reply)
            ELSE FetchBackoff
    /\ UNCHANGED <<fetchVariant, maxRetries, request, baseDelay>>

\* the backoff delay is over: finally, attempt++, back to the loop test
FetchBackoffElapsed ==
    /\ fetchPc = "Backoff"
    /\ fetchPc' = "LoopHead"
    /\ attempt' = attempt + 1
    /\ backoffDelay' = 0
    /\ UNCHANGED <<fetchVariant, maxRetries, signal, request, fetchLog, netReply,
                   fetchResult, settleLog, baseDelay>>
    /\ UNCHANGED <<cryptoVars, cmdVars, backendVars>>
    /\ UNCHANGED <<tokenVars, payloadVars, stdinVars, encryptVars, lengthVars>>

\* the timer moving on to the next attempt while the request stays in flight
FetchTimeout_NoAbort ==
    /\ fetchPc = "InFlight" /\ attempt < maxRetries
    /\ FetchBackoff
    /\ UNCHANGED <<fetchVariant, maxRetries, signal, request, netReply, settleLog,
                   baseDelay>>
    /\ UNCHANGED <<cryptoVars, cmdVars, backendVars>>
    /\ UNCHANGED <<tokenVars, payloadVars, stdinVars, encryptVars, lengthVars>>

\* setTimeout(() => timeoutController.abort(), FETCH_TIMEOUT) fires while the
\* request is in flight: fetch() rejects with an AbortError
FetchTimeout ==
    /\ FetchSettle(AbortError)
    /\ UNCHANGED signal
    /\ UNCHANGED <<cryptoVars, cmdVars, backendVars>>
    /\ UNCHANGED <<tokenVars, payloadVars, stdinVars, encryptVars, lengthVars>>

\* the caller's signal fires while the call is running; the chained variant
\* aborts the request in flight
FetchSignalAbort ==
    /\ fetchPc \in {"LoopHead", "InFlight", "Backoff"}
    /\ signal.given /\ ~signal.aborted
    /\ signal' = [signal EXCEPT !.aborted = TRUE]
    /\ IF fetchPc = "InFlight" /\ fetchVariant = "chained"
       THEN FetchSettle(AbortError)
       ELSE UNCHANGED <<fetchPc, fetchVariant, attempt, maxRetries, request,
                        fetchLog, netReply, fetchResult, settleLog, baseDelay,
                        backoffDelay>>
    /\ UNCHANGED <<cryptoVars, cmdVars, backendVars>>
    /\ UNCHANGED <<tokenVars, payloadVars, stdinVars, encryptVars, lengthVars>>

\* ------------------------------------------------------------ fetchWithRetry alone
\* what a fetch() can settle with when anything may be at the other end
HarnessStatuses == {200, 404, 410, 500, 501, 502, 503, 504}
HarnessMessages ==
    {"fetch failed", "read ECONNRESET", "connect ETIMEDOUT 10.0.0.1:443",
     "getaddrinfo ENOTFOUND api.stasher.dev", "connect ECONNREFUSED 127.0.0.1:443",
     "network timeout", "socket hang up", "Failed to parse URL"}
HarnessReplies ==
    {Response(s, JUndefined) : s \in HarnessStatuses}
    \cup {Error(n, m) : n \in {"TypeError", "Error"}, m \in HarnessMessages}

\* the base delays a caller of fetchWithRetry may pass, in ms
HarnessBaseDelays == {1000, 4000}

FetchStart ==
    /\ fetchPc = "LoopHead"
    /\ fetchVariant \in {"chained", "timeoutOnly"}
    /\ attempt = 0
    /\ maxRetries \in 0..MaxRetriesBound
    /\ signal \in {[given |-> g, aborted |-> a] : g \in BOOLEAN, a \in BOOLEAN}
    /\ signal.aborted => signal.given
    /\ request = [method |-> "GET", endpoint |-> "harness", arg |-> <<>>,
                  body |-> JUndefined]
    /\ fetchLog = <<>>
    /\ netReply = NoReply
    /\ fetchResult = NoReply
    /\ settleLog = <<>>
    /\ baseDelay \in HarnessBaseDelays
    /\ backoffDelay = 0

HarnessSettle ==
    /\ \E reply \in HarnessReplies : FetchSettle(reply)
    /\ UNCHANGED signal
    /\ UNCHANGED <<cryptoVars, cmdVars, backendVars>>
    /\ UNCHANGED <<tokenVars, payloadVars, stdinVars, encryptVars, lengthVars>>

FetchInit == CryptoOff /\ FetchStart /\ CmdOff /\ TokenOff /\ PayloadOff /\ StdinOff /\ EncryptOff /\ LengthOff

FetchNext ==
    \/ FetchAttemptStart
    \/ HarnessSettle
    \/ FetchTimeout
    \/ FetchSignalAbort
    \/ FetchBackoffElapsed

FetchSpec == FetchInit /\ [][FetchNext]_vars

\* the call runs on: the loop goes on when it can, a delay elapses, and a
\* request in flight settles, at the latest by its own timeout
FetchFairSpec ==
    /\ FetchSpec
    /\ WF_vars(FetchAttemptStart)
    /\ WF_vars(FetchBackoffElapsed)
    /\ WF_vars(HarnessSettle \/ FetchTimeout)

\* ------------------------------------------------------------ the commands: inputs
\* the id of the stash the backend holds: a version-4 UUID
\* "a1b2c3d4-e5f6-4890-abcd-ef1234567890"
StashId ==
    <<97, 49, 98, 50, 99, 51, 100, 52, 45, 101, 53, 102, 54, 45, 52, 56,
      57, 48, 45, 97, 98, 99, 100, 45, 101, 102, 49, 50, 51, 52, 53, 54,
      55, 56, 57, 48>>
\* "a1b2c3d4-e5f6-7890-abcd-ef1234567890", whose third group opens with 7
SeventhVersionId ==
    <<97, 49, 98, 50, 99, 51, 100, 52, 45, 101, 53, 102, 54, 45, 55, 56,
      57, 48, 45, 97, 98, 99, 100, 45, 101, 102, 49, 50, 51, 52, 53, 54,
      55, 56, 57, 48>>
\* the id the backend gives to a new stash
\* "0f8fad5b-d9cb-469f-a165-70867728950e"
NewStashId ==
    <<48, 102, 56, 102, 97, 100, 53, 98, 45, 100, 57, 99, 98, 45, 52, 54,
      57, 102, 45, 97, 49, 54, 53, 45, 55, 48, 56, 54, 55, 55, 50, 56, 57,
      53, 48, 101>>
\* "Expired", "Consumed", "undefined"
ExpiredText == <<69, 120, 112, 105, 114, 101, 100>>
ConsumedText == <<67, 111, 110, 115, 117, 109, 101, 100>>
UndefinedText == <<117, 110, 100, 101, 102, 105, 110, 101, 100>>
\* "Stash ", " has been permanently deleted."
StashText == <<83, 116, 97, 115, 104, 32>>
DeletedText ==
    <<32, 104, 97, 115, 32, 98, 101, 101, 110, 32, 112, 101, 114, 109, 97,
      110, 101, 110, 116, 108, 121, 32, 100, 101, 108, 101, 116, 101, 100,
      46>>


\* the stash an earlier enstash of "hello world" left at the backend
StoredEnvelope == encrypt(HelloWorld, KeyOf(1), IvOf(1))
GenuinePayload == createPayload(StoredEnvelope)

\* what else the backend may answer a GET with
EmptyCiphertextPayload == JObj([GenuinePayload.f EXCEPT !.ciphertext = JStr(<<>>)])
PaddedIvPayload ==
    JObj([GenuinePayload.f EXCEPT !.iv = JStr(Append(GenuinePayload.f.iv.s, 61))])
BadCharIvPayload ==
    JObj([GenuinePayload.f EXCEPT !.iv = JStr(Append(GenuinePayload.f.iv.s, 33))])
ShortIvPayload ==
    JObj([GenuinePayload.f EXCEPT !.iv = JStr(SubSeq(GenuinePayload.f.iv.s, 1, 12))])
ArrayTagPayload ==
    JObj([GenuinePayload.f EXCEPT !.tag = JArr(GenuinePayload.f.tag.s, 1)])
MissingTagPayload ==
    JObj([iv |-> GenuinePayload.f.iv, ciphertext |-> GenuinePayload.f.ciphertext])
TamperedPayload ==
    JObj([GenuinePayload.f EXCEPT !.ciphertext =
              JStr(toBase64Url(FlipBitAt(StoredEnvelope.ciphertext, 1, 0)))])
ShortTagPayload ==
    JObj([GenuinePayload.f EXCEPT !.tag = JStr(SubSeq(GenuinePayload.f.tag.s, 1, 20))])
TamperedTagPayload ==
    JObj([GenuinePayload.f EXCEPT !.tag =
              JStr(toBase64Url(FlipBitAt(StoredEnvelope.tag, 1, 0)))])
NullBody == JOther("null")
NotJson == JOther("not json")
StoredBodies ==
    {GenuinePayload, EmptyCiphertextPayload, PaddedIvPayload, BadCharIvPayload,
     ShortIvPayload, ArrayTagPayload, MissingTagPayload, TamperedPayload,
     ShortTagPayload, TamperedTagPayload, NullBody, NotJson}

\* what the user may give to destash and unstash
GoodToken == formatStashToken(StashId, KeyOf(1))
WrongKeyToken == formatStashToken(StashId, KeyOf(2))
PaddedToken == <<32>> \o GoodToken \o <<10>>
BareUuid == StashId
MissingKeyToken == Append(StashId, 58)
ShortKeyToken == SubSeq(GoodToken, 1, Len(GoodToken) - 1)
SeventhVersionToken == formatStashToken(SeventhVersionId, KeyOf(1))
TokenInputs ==
    {[given |-> TRUE, text |-> x] :
        x \in {GoodToken, WrongKeyToken, PaddedToken, BareUuid, MissingKeyToken,
               ShortKeyToken, SeventhVersionToken}}
    \cup {[given |-> FALSE, text |-> <<>>]}

\* what the user may give to enstash: "hello world", two bytes that are no
\* ASCII text, a lone space, nothing
EnstashSecrets == {HelloWorld, <<255, 104>>, <<32>>, <<>>}

\* the arguments a user may give to enstash, joined: "hi", "h\u00e9"
EnstashArgs == {<<104, 105>>, <<104, 233>>}

\* what the backend may hold when destash or unstash starts
StashStates ==
    {[state |-> "stored", body |-> b] : b \in StoredBodies}
    \cup {[state |-> s, body |-> GenuinePayload] : s \in {"consumed", "expired", "absent"}}

\* ------------------------------------------------------------ the commands: shared steps
\* exitWithMessage: console.error(msg); process.exit(code). The process ends
\* there: no finally block of the caller runs.
exitWithMessage(msg, code) ==
    /\ cmdPc' = "Exited"
    /\ exitCode' = code
    /\ stderr' = Append(stderr, msg)

\* the command function returns and the process ends with code 0
ReturnNormally ==
    /\ cmdPc' = "Exited"
    /\ exitCode' = 0
    /\ UNCHANGED stderr

\* await fetchWithRetry(url, {method, body, signal}): the call begins
FetchCall(method, endpoint, arg, body, sig) ==
    /\ fetchPc' = "LoopHead"
    /\ attempt' = 0
    /\ maxRetries' = DefaultMaxRetries
    /\ signal' = sig
    /\ request' = [method |-> method, endpoint |-> endpoint, arg |-> arg, body |-> body]
    /\ fetchLog' = <<>>
    /\ netReply' = NoReply
    /\ fetchResult' = NoReply
    /\ settleLog' = <<>>
    /\ baseDelay' = DefaultBaseDelay
    /\ backoffDelay' = 0
    /\ UNCHANGED fetchVariant

\* response.json() of a body that arrived: it rejects unless the body is JSON
JsonRejects(body) == body.t = "not json"

\* the message for a 410: const { error } = await response.json().catch(() => ({}))
GoneMessage(body) ==
    IF GetField(body, "error") = JStr(ExpiredText)
    THEN "This stash has expired."
    ELSE "This stash has already been consumed."

\* decrypt with the buffer wiped before it is read
decrypt_WipeFirst(payload, key) ==
    LET r == decryptToBytes(payload, key)
    IN  [r EXCEPT !.bytes = zeroBuffer(r.bytes)]
            @@ [text |-> Utf8ToString(zeroBuffer(r.bytes))]

\* decrypt: decryptToBytes, then buf.toString('utf8') with buf wiped in the
\* finally; bytes is what buf holds afterwards, text the string returned
decrypt(payload, key) ==
    LET r == decryptToBytes(payload, key)
    IN  [r EXCEPT !.bytes = zeroBuffer(r.bytes)] @@ [text |-> Utf8ToString(r.bytes)]

\* the part of the URL after /destash/ or /unstash/
DestashUrl_RawInput(raw, id) == raw

\* `${config.apiBaseUrl}/destash/${uuid}`
DestashUrl(raw, id) == id

\* ------------------------------------------------------------ destash
\* rawInput and extractUUID are checked, then the GET is issued under a
\* 10 s abort timer
Destash_Start ==
    /\ cmd = "destash" /\ cmdPc = "Start"
    /\ IF ~rawInput.given \/ Len(rawInput.text) = 0
       THEN /\ exitWithMessage("No stash token provided. Expected format: uuid:base64key", 2)
            /\ UNCHANGED uuid
            /\ UNCHANGED fetchVars
       ELSE /\ uuid' = extractUUID(rawInput.text)
            /\ IF Len(uuid') = 0 \/ ~validateUUID(uuid')
               THEN /\ exitWithMessage("Invalid stash token format. Expected: uuid:base64key", 2)
                    /\ UNCHANGED fetchVars
               ELSE /\ FetchCall("GET", "destash", DestashUrl(rawInput.text, uuid'),
                                 JUndefined, [given |-> TRUE, aborted |-> FALSE])
                    /\ cmdPc' = "AwaitFetch"
                    /\ UNCHANGED <<exitCode, stderr>>
    /\ UNCHANGED <<cmd, rawInput, stdout, randomKey>>
    /\ UNCHANGED <<cryptoVars, backendVars>>
    /\ UNCHANGED <<tokenVars, payloadVars, stdinVars, encryptVars, lengthVars>>

\* fetchWithRetry returned a response: the status checks
Destash_FetchReturned ==
    /\ cmd = "destash" /\ cmdPc = "AwaitFetch" /\ fetchPc = "Returned"
    /\ IF fetchResult.status = 404
       THEN exitWithMessage("Stash not found or already retrieved.", 3)
       ELSE IF fetchResult.status = 410
       THEN exitWithMessage(GoneMessage(fetchResult.body), 4)
       ELSE IF ~ResponseOk(fetchResult)
       THEN exitWithMessage("Failed to fetch stash: HTTP <status>", 5)
       ELSE /\ cmdPc' = "ReadBody"
            /\ UNCHANGED <<exitCode, stderr>>
    /\ UNCHANGED <<cmd, rawInput, uuid, stdout, randomKey>>
    /\ UNCHANGED <<cryptoVars, fetchVars, backendVars>>
    /\ UNCHANGED <<tokenVars, payloadVars, stdinVars, encryptVars, lengthVars>>

\* await response.json(), then decodeStashToken, decrypt and the write to
\* stdout inside try / catch / finally
Destash_ReadBody ==
    /\ cmd = "destash" /\ cmdPc = "ReadBody"
    /\ \E arrives \in BOOLEAN :
       IF ~arrives \/ JsonRejects(fetchResult.body)
       THEN \* response.json() rejects: the outer catch
            /\ exitWithMessage("Failed to retrieve or decrypt secret.", 5)
            /\ UNCHANGED <<decKey, decrypted, stdout, delivered>>
       ELSE /\ delivered' = IF served THEN "body" ELSE delivered
            /\ IF ~decodeStashToken(rawInput.text).ok
               THEN \* decodeStashToken throws: key is still undefined
                    /\ exitWithMessage("Failed to retrieve or decrypt secret.", 6)
                    /\ UNCHANGED <<decKey, decrypted, stdout>>
               ELSE LET key == decodeStashToken(rawInput.text).key
                        r == decrypt(fetchResult.body, key)
                    IN  /\ decrypted' = [ok |-> r.ok, bytes |-> r.bytes, err |-> r.err,
                                         cipher |-> r.cipher]
                        /\ IF r.ok
                           THEN /\ stdout' = Append(stdout, Append(r.text, 10))
                                /\ decKey' = zeroBuffer(key)
                                /\ ReturnNormally
                           ELSE \* catch: process.exit(6) before the finally
                                /\ exitWithMessage("Failed to retrieve or decrypt secret.", 6)
                                /\ decKey' = key
                                /\ UNCHANGED stdout
    /\ UNCHANGED <<cmd, rawInput, uuid, randomKey>>
    /\ UNCHANGED <<cryptoPc, secretBytes, encryptionResult, wirePayload, tampered>>
    /\ UNCHANGED <<stash, servedAttempt, pending, served, storedCount>>
    /\ UNCHANGED fetchVars
    /\ UNCHANGED <<tokenVars, payloadVars, stdinVars, encryptVars, lengthVars>>

\* fetchWithRetry threw: the outer catch
Destash_FetchThrown ==
    /\ cmd = "destash" /\ cmdPc = "AwaitFetch" /\ fetchPc = "Thrown"
    /\ IF fetchResult.name = "AbortError"
       THEN exitWithMessage("Request timed out after 10 seconds.", 5)
       ELSE exitWithMessage("Failed to retrieve or decrypt secret.", 5)
    /\ UNCHANGED <<cmd, rawInput, uuid, stdout, randomKey>>
    /\ UNCHANGED <<cryptoVars, fetchVars, backendVars>>
    /\ UNCHANGED <<tokenVars, payloadVars, stdinVars, encryptVars, lengthVars>>

\* ------------------------------------------------------------ unstash
Unstash_Start ==
    /\ cmd = "unstash" /\ cmdPc = "Start"
    /\ IF ~rawInput.given \/ Len(rawInput.text) = 0
       THEN /\ exitWithMessage("No stash token or uuid provided.", 2)
            /\ UNCHANGED uuid
            /\ UNCHANGED fetchVars
       ELSE /\ uuid' = extractUUID(rawInput.text)
            /\ IF Len(uuid') = 0 \/ ~validateUUID(uuid')
               THEN /\ exitWithMessage("Invalid format. Expected uuid or stash token", 2)
                    /\ UNCHANGED fetchVars
               ELSE /\ FetchCall("DELETE", "unstash", DestashUrl(rawInput.text, uuid'),
                                 JUndefined, [given |-> TRUE, aborted |-> FALSE])
                    /\ cmdPc' = "AwaitFetch"
                    /\ UNCHANGED <<exitCode, stderr>>
    /\ UNCHANGED <<cmd, rawInput, stdout, randomKey>>
    /\ UNCHANGED <<cryptoVars, backendVars>>
    /\ UNCHANGED <<tokenVars, payloadVars, stdinVars, encryptVars, lengthVars>>

Unstash_FetchReturned ==
    /\ cmd = "unstash" /\ cmdPc = "AwaitFetch" /\ fetchPc = "Returned"
    /\ IF fetchResult.status = 404
       THEN exitWithMessage("Stash not found or already deleted.", 3)
       ELSE IF fetchResult.status = 410
       THEN exitWithMessage(GoneMessage(fetchResult.body), 4)
       ELSE IF ~ResponseOk(fetchResult)
       THEN exitWithMessage("Failed to delete stash: HTTP <status>", 5)
       ELSE /\ cmdPc' = "ReadBody"
            /\ UNCHANGED <<exitCode, stderr>>
    /\ UNCHANGED <<cmd, rawInput, uuid, stdout, randomKey>>
    /\ UNCHANGED <<cryptoVars, fetchVars, backendVars>>
    /\ UNCHANGED <<tokenVars, payloadVars, stdinVars, encryptVars, lengthVars>>

\* the guarded response.json() and the confirmation on stdout
Unstash_ReadBody ==
    /\ cmd = "unstash" /\ cmdPc = "ReadBody"
    /\ \E arrives \in BOOLEAN :
       IF ~arrives \/ JsonRejects(fetchResult.body)
       THEN /\ exitWithMessage("Server returned invalid response format.", 5)
            /\ UNCHANGED stdout
       ELSE IF fetchResult.body.t \in {"null", "undefined"}
       THEN \* result.id throws: the outer catch
            /\ exitWithMessage("Failed to delete stash. Please try again.", 5)
            /\ UNCHANGED stdout
       ELSE /\ stdout' = Append(stdout,
                  StashText \o (IF GetField(fetchResult.body, "id").t = "string"
                                THEN GetField(fetchResult.body, "id").s
                                ELSE UndefinedText) \o DeletedText \o <<10>>)
            /\ ReturnNormally
    /\ UNCHANGED <<cmd, rawInput, uuid, randomKey>>
    /\ UNCHANGED <<cryptoVars, fetchVars, backendVars>>
    /\ UNCHANGED <<tokenVars, payloadVars, stdinVars, encryptVars, lengthVars>>

Unstash_FetchThrown ==
    /\ cmd = "unstash" /\ cmdPc = "AwaitFetch" /\ fetchPc = "Thrown"
    /\ IF fetchResult.name = "AbortError"
       THEN exitWithMessage("Request timed out after 10 seconds.", 5)
       ELSE exitWithMessage("Failed to delete stash. Please try again.", 5)
    /\ UNCHANGED <<cmd, rawInput, uuid, stdout, randomKey>>
    /\ UNCHANGED <<cryptoVars, fetchVars, backendVars>>
    /\ UNCHANGED <<tokenVars, payloadVars, stdinVars, encryptVars, lengthVars>>

\* ------------------------------------------------------------ enstash
validateSecretBufferContent(secretBuffer) ==
    Len(secretBuffer) > 0 /\ Len(Trim(Utf8ToString(secretBuffer))) > 0

validateSecretBufferLength(secretBuffer, maxLength) ==
    Len(secretBuffer) > 0 /\ Len(secretBuffer) <= maxLength

\* the finally of runEnstash: zeroBuffer(encryptionResult.key) and
\* zeroBuffer(secretBuffer)
Enstash_Finally ==
    /\ encryptionResult' = [encryptionResult EXCEPT !.key = zeroBuffer(@)]
    /\ secretBytes' = zeroBuffer(secretBytes)

\* secret.length of a string counts UTF-16 code units
validateSecretLength(secret, maxLength) ==
    Len(secret) > 0 /\ Len(secret) <= maxLength

validateSecretContent(secret) == Len(Trim(secret)) > 0

\* the UTF-8 bytes of one UTF-16 code unit outside the surrogate range
Utf8Bytes(c) ==
    IF c < 128 THEN <<c>>
    ELSE IF c < 2048 THEN <<192 + (c \div 64), 128 + (c % 64)>>
    ELSE <<224 + (c \div 4096), 128 + ((c \div 64) % 64), 128 + (c % 64)>>

RECURSIVE Utf8EncodeRange(_, _, _)
\* the UTF-8 bytes of s[lo..hi], by halves
Utf8EncodeRange(s, lo, hi) ==
    IF lo > hi THEN <<>>
    ELSE IF lo = hi THEN Utf8Bytes(s[lo])
    ELSE Utf8EncodeRange(s, lo, (lo + hi) \div 2)
         \o Utf8EncodeRange(s, (lo + hi) \div 2 + 1, hi)

\* Buffer.from(secretString, 'utf8')
BufferFromUtf8(s) == Utf8EncodeRange(s, 1, Len(s))

MAX_STDIN_SIZE == MAX_SECRET_LENGTH

\* readFromStdin on a piped stream that ends: it rejects when no byte came
\* or when the bytes exceed MAX_STDIN_SIZE, else it resolves to the bytes
readFromStdin(stream) ==
    IF Len(stream) = 0
    THEN [ok |-> FALSE, error |-> "No data received from stdin"]
    ELSE IF Len(stream) > MAX_STDIN_SIZE
    THEN [ok |-> FALSE, error |-> "Stdin input exceeds maximum size"]
    ELSE [ok |-> TRUE, error |-> ""]

\* the secret is taken from the arguments (joined, validated as a string,
\* then encoded) or read from stdin (validated as a buffer); secretBytes
\* holds the bytes on stdin until then
Enstash_Start ==
    /\ cmd = "enstash" /\ cmdPc = "Start"
    /\ IF rawInput.given
       THEN IF ~validateSecretContent(rawInput.text)
            THEN /\ exitWithMessage("Secret cannot be empty or whitespace only", 1)
                 /\ UNCHANGED secretBytes
            ELSE IF ~validateSecretLength(rawInput.text, MAX_SECRET_LENGTH)
            THEN /\ exitWithMessage("Secret too long (characters)", 1)
                 /\ UNCHANGED secretBytes
            ELSE /\ secretBytes' = BufferFromUtf8(rawInput.text)
                 /\ cmdPc' = "Validated"
                 /\ UNCHANGED <<exitCode, stderr>>
       ELSE /\ UNCHANGED secretBytes
            /\ IF ~readFromStdin(secretBytes).ok
               THEN exitWithMessage("Failed to read from stdin", 1)
               ELSE IF ~validateSecretBufferContent(secretBytes)
               THEN exitWithMessage("Secret cannot be empty or whitespace only", 1)
               ELSE IF ~validateSecretBufferLength(secretBytes, MAX_SECRET_LENGTH)
               THEN exitWithMessage("Secret too long (bytes)", 1)
               ELSE /\ cmdPc' = "Validated"
                    /\ UNCHANGED <<exitCode, stderr>>
    /\ UNCHANGED <<cmd, rawInput, uuid, stdout, randomKey>>
    /\ UNCHANGED <<cryptoPc, encryptionResult, wirePayload, tampered, decKey, decrypted>>
    /\ UNCHANGED <<fetchVars, backendVars>>
    /\ UNCHANGED <<tokenVars, payloadVars, stdinVars, encryptVars, lengthVars>>

\* encrypt, createPayload, the size check, and the POST is issued
Enstash_Encrypt ==
    /\ cmd = "enstash" /\ cmdPc = "Validated"
    /\ \E key \in Keys, iv \in Ivs :
           /\ randomKey' = key
           /\ encryptionResult' = encrypt(secretBytes, key, iv)
    /\ wirePayload' = createPayload(encryptionResult')
    /\ IF EncodedPayloadLength(wirePayload') > MAX_PAYLOAD_SIZE
       THEN /\ exitWithMessage("Encrypted payload is too large", 1)
            /\ UNCHANGED fetchVars
       ELSE /\ FetchCall("POST", "enstash", <<>>, wirePayload',
                         [given |-> FALSE, aborted |-> FALSE])
            /\ cmdPc' = "AwaitFetch"
            /\ UNCHANGED <<exitCode, stderr>>
    /\ UNCHANGED <<cmd, rawInput, uuid, stdout>>
    /\ UNCHANGED <<cryptoPc, secretBytes, tampered, decKey, decrypted>>
    /\ UNCHANGED backendVars
    /\ UNCHANGED <<tokenVars, payloadVars, stdinVars, encryptVars, lengthVars>>

\* fetchWithRetry returned a response: if (!response.ok) exitWithMessage(...)
Enstash_FetchReturned ==
    /\ cmd = "enstash" /\ cmdPc = "AwaitFetch" /\ fetchPc = "Returned"
    /\ IF ~ResponseOk(fetchResult)
       THEN exitWithMessage("Failed to create stash", 1)
       ELSE /\ cmdPc' = "ReadBody"
            /\ UNCHANGED <<exitCode, stderr>>
    /\ UNCHANGED <<cmd, rawInput, uuid, stdout, randomKey>>
    /\ UNCHANGED <<cryptoVars, fetchVars, backendVars>>
    /\ UNCHANGED <<tokenVars, payloadVars, stdinVars, encryptVars, lengthVars>>

\* await response.json(), the token goes to stdout, the finally wipes
Enstash_ReadBody ==
    /\ cmd = "enstash" /\ cmdPc = "ReadBody"
    /\ \E arrives \in BOOLEAN :
       IF ~arrives \/ JsonRejects(fetchResult.body)
          \/ fetchResult.body.t \in {"null", "undefined"}
       THEN \* a throw inside the inner try: finally, then the outer catch
            /\ exitWithMessage("Operation failed. Please try again.", 1)
            /\ UNCHANGED stdout
       ELSE /\ stdout' = Append(stdout,
                  Append(formatStashToken(
                             IF GetField(fetchResult.body, "id").t = "string"
                             THEN GetField(fetchResult.body, "id").s
                             ELSE UndefinedText,
                             encryptionResult.key), 10))
            /\ ReturnNormally
    /\ Enstash_Finally
    /\ UNCHANGED <<cmd, rawInput, uuid, randomKey>>
    /\ UNCHANGED <<cryptoPc, wirePayload, tampered, decKey, decrypted>>
    /\ UNCHANGED <<fetchVars, backendVars>>
    /\ UNCHANGED <<tokenVars, payloadVars, stdinVars, encryptVars, lengthVars>>

\* fetchWithRetry threw: finally, then the outer catch
Enstash_FetchThrown ==
    /\ cmd = "enstash" /\ cmdPc = "AwaitFetch" /\ fetchPc = "Thrown"
    /\ Enstash_Finally
    /\ exitWithMessage("Operation failed. Please try again.", 1)
    /\ UNCHANGED <<cmd, rawInput, uuid, stdout, randomKey>>
    /\ UNCHANGED <<cryptoPc, wirePayload, tampered, decKey, decrypted>>
    /\ UNCHANGED <<fetchVars, backendVars>>
    /\ UNCHANGED <<tokenVars, payloadVars, stdinVars, encryptVars, lengthVars>>

\* ------------------------------------------------------------ the backend and the network
\* statuses the service may answer with when it does not handle the request
BackendFaultStatuses == {503, 429}

\* the reply of the backend to the request when it handles it, and what
\* becomes of the stash
BackendReply(status, body, state) ==
    /\ pending' = Response(status, body)
    /\ stash' = [stash EXCEPT !.state = state]
    /\ UNCHANGED storedCount

\* the request in flight reaches the backend, which handles it once
BackendHandle ==
    /\ cmdPc = "AwaitFetch" /\ fetchPc = "InFlight" /\ servedAttempt # attempt
    /\ servedAttempt' = attempt
    /\ \/ /\ \E s \in BackendFaultStatuses : pending' = Response(s, NotJson)
          /\ UNCHANGED <<stash, served, storedCount>>
       \/ /\ request.method = "POST"
          /\ pending' = Response(200, JObj([id |-> JStr(NewStashId)]))
          /\ stash' = [state |-> "stored", body |-> request.body]
          /\ storedCount' = storedCount + 1
          /\ UNCHANGED served
       \/ /\ request.method = "GET" /\ stash.state = "stored"
          /\ BackendReply(200, stash.body, "consumed")
          /\ served' = TRUE
       \/ /\ request.method = "DELETE" /\ stash.state = "stored"
          /\ BackendReply(200, JObj([id |-> JStr(request.arg)]), "deleted")
          /\ UNCHANGED served
       \/ /\ request.method \in {"GET", "DELETE"} /\ stash.state = "consumed"
          /\ \/ BackendReply(410, JObj([error |-> JStr(ConsumedText)]), stash.state)
             \/ BackendReply(404, NotJson, stash.state)
          /\ UNCHANGED served
       \/ /\ request.method \in {"GET", "DELETE"} /\ stash.state = "expired"
          /\ BackendReply(410, JObj([error |-> JStr(ExpiredText)]), stash.state)
          /\ UNCHANGED served
       \/ /\ request.method \in {"GET", "DELETE"} /\ stash.state \in {"absent", "deleted"}
          /\ BackendReply(404, NotJson, stash.state)
          /\ UNCHANGED served
    /\ UNCHANGED delivered
    /\ UNCHANGED <<cryptoVars, fetchVars, cmdVars>>
    /\ UNCHANGED <<tokenVars, payloadVars, stdinVars, encryptVars, lengthVars>>

\* the backend's reply reaches fetch()
NetDeliver ==
    /\ fetchPc = "InFlight" /\ servedAttempt = attempt
    /\ FetchSettle(pending)
    /\ delivered' = IF served /\ pending.status = 200 THEN "headers" ELSE delivered
    /\ UNCHANGED signal
    /\ UNCHANGED <<stash, servedAttempt, pending, served, storedCount>>
    /\ UNCHANGED <<cryptoVars, cmdVars>>
    /\ UNCHANGED <<tokenVars, payloadVars, stdinVars, encryptVars, lengthVars>>

\* the ways the network fails a fetch(): one the retry test names, one it
\* does not
NetFaults == {Error("TypeError", "fetch failed"), Error("TypeError", "Failed to parse URL")}

\* the request or its reply is lost
NetFail ==
    /\ \E fault \in NetFaults : FetchSettle(fault)
    /\ UNCHANGED signal
    /\ UNCHANGED <<cryptoVars, cmdVars, backendVars>>
    /\ UNCHANGED <<tokenVars, payloadVars, stdinVars, encryptVars, lengthVars>>

\* ------------------------------------------------------------ the commands: specification
\* a command starts: its input, what the backend holds, and which of the two
\* fetchWithRetry files is built in
CmdStart ==
    /\ cmd \in {"enstash", "destash", "unstash"}
    /\ cmdPc = "Start"
    /\ uuid = <<>> /\ stdout = <<>> /\ stderr = <<>> /\ exitCode = -1
    /\ randomKey = <<>>
    /\ servedAttempt = -1 /\ pending = NoReply /\ served = FALSE
    /\ storedCount = 0
    /\ delivered = "nothing"
    /\ cryptoPc = "Off" /\ encryptionResult = NoEnvelope /\ wirePayload = JUndefined
    /\ tampered = NoTamper /\ decKey = <<>> /\ decrypted = NotCalled
    /\ fetchPc = "Off" /\ attempt = 0 /\ maxRetries = 0
    /\ signal = [given |-> FALSE, aborted |-> FALSE]
    /\ request = [method |-> "", endpoint |-> "", arg |-> <<>>, body |-> JUndefined]
    /\ fetchLog = <<>> /\ netReply = NoReply /\ fetchResult = NoReply
    /\ settleLog = <<>> /\ baseDelay = 0 /\ backoffDelay = 0
    /\ fetchVariant \in {"chained", "timeoutOnly"}
    /\ TokenOff
    /\ PayloadOff
    /\ StdinOff
    /\ EncryptOff
    /\ LengthOff
    /\ IF cmd = "enstash"
       THEN /\ \/ /\ secretBytes \in EnstashSecrets
                  /\ rawInput = [given |-> FALSE, text |-> <<>>]
               \/ /\ secretBytes = <<>>
                  /\ rawInput \in {[given |-> TRUE, text |-> s] : s \in EnstashArgs}
            /\ stash = [state |-> "absent", body |-> JUndefined]
       ELSE /\ secretBytes = <<>>
            /\ rawInput \in TokenInputs
            /\ stash \in StashStates
            /\ stash.body # GenuinePayload => (cmd = "destash" /\ rawInput.text = GoodToken)

Init == CmdStart

Next ==
    \/ Enstash_Start
    \/ Enstash_Encrypt
    \/ Enstash_FetchReturned
    \/ Enstash_ReadBody
    \/ Enstash_FetchThrown
    \/ Destash_Start
    \/ Destash_FetchReturned
    \/ Destash_ReadBody
    \/ Destash_FetchThrown
    \/ Unstash_Start
    \/ Unstash_FetchReturned
    \/ Unstash_ReadBody
    \/ Unstash_FetchThrown
    \/ FetchAttemptStart
    \/ FetchBackoffElapsed
    \/ FetchTimeout
    \/ FetchSignalAbort
    \/ BackendHandle
    \/ NetDeliver
    \/ NetFail

Spec == Init /\ [][Next]_vars

\* ------------------------------------------------------------ specifications
CryptoNext == CryptoEncrypt \/ CryptoCreatePayload \/ CryptoTamper \/ CryptoDecrypt

CryptoInit == CryptoStart /\ FetchOff /\ CmdOff /\ TokenOff /\ PayloadOff /\ StdinOff /\ EncryptOff /\ LengthOff

CryptoSpec == CryptoInit /\ [][CryptoNext]_vars

CryptoDone == cryptoPc \in {"Open", "Rejected"}

\* C1: a payload made by encrypt and createPayload, decrypted with the key
\* that encrypt returned, gives back exactly the plaintext.
C1_RoundTrip ==
    (CryptoDone /\ tampered = NoTamper /\ decKey = encryptionResult.key)
        => (decrypted.ok /\ decrypted.bytes = secretBytes)

C1_Witness ==
    /\ cryptoPc = "Open" /\ tampered = NoTamper /\ decKey = encryptionResult.key
    /\ secretBytes = HelloWorld
    /\ decrypted.bytes = HelloWorld
    /\ \E i \in DOMAIN wirePayload.f["ciphertext"].s :
           wirePayload.f["ciphertext"].s[i] \in {45, 95}

\* C2: with one bit of the tag or of the ciphertext flipped, decryption with
\* the original key fails with the authentication failure and no plaintext
\* is returned.
C2_TamperDetected ==
    (CryptoDone /\ tampered # NoTamper /\ decKey = encryptionResult.key)
        => (~decrypted.ok /\ decrypted.err = "AuthenticationFailed"
            /\ decrypted.bytes = <<>>)

C2_Witness ==
    /\ cryptoPc = "Rejected" /\ tampered.field = "ciphertext" /\ tampered.bit = 7
    /\ decKey = encryptionResult.key
    /\ decrypted.err = "AuthenticationFailed"

\* C3: decrypting an untampered payload with a 32-byte key other than the one
\* that encrypted it fails; no plaintext is returned.
C3_WrongKeyFails ==
    (CryptoDone /\ tampered = NoTamper /\ Len(decKey) = KEY_LENGTH
       /\ decKey # encryptionResult.key)
        => (~decrypted.ok /\ decrypted.bytes = <<>>)

C3_Witness ==
    /\ cryptoPc = "Rejected" /\ tampered = NoTamper
    /\ decKey \in Keys /\ decKey # encryptionResult.key
    /\ decrypted.cipher

\* ------------------------------------------------------------ the retry policy
Count(log, e) == Cardinality({i \in DOMAIN log : log[i] = e})
FetchEnded == fetchPc \in {"Returned", "Thrown"}

\* the statuses and the faults the policy names
WhitelistedStatus(r) == r.kind = "response" /\ r.status \in {500, 502, 503, 504}
TransientFault(r) ==
    /\ r.kind = "error" /\ r.name = "TypeError"
    /\ r.message \in {"fetch failed", "read ECONNRESET", "connect ETIMEDOUT 10.0.0.1:443",
                      "getaddrinfo ENOTFOUND api.stasher.dev",
                      "connect ECONNREFUSED 127.0.0.1:443", "network timeout",
                      "socket hang up"}

\* C8: when a fetch() settles, the call goes on to a backoff and another
\* attempt iff attempts remain and the reply is a 500/502/503/504 response or a
\* transient network fault (a TypeError of fetch naming one of the listed
\* causes); any other error is thrown at once, any other response is
\* returned at once; after the backoff the next attempt starts.
C8_RetryPredicate ==
    /\ [][(fetchPc = "InFlight" /\ fetchPc' # "InFlight") =>
            LET r == netReply'
                retry == attempt < maxRetries /\ (WhitelistedStatus(r) \/ TransientFault(r))
            IN  /\ (fetchPc' = "Backoff") <=> retry
                /\ (fetchPc' = "Backoff") => attempt' = attempt
                /\ (r.kind = "error" /\ ~retry) =>
                       (fetchPc' = "Thrown" /\ fetchResult' = r)
                /\ (r.kind = "response" /\ ~WhitelistedStatus(r)) =>
                       (fetchPc' = "Returned" /\ fetchResult' = r)]_vars
    /\ [][(fetchPc = "Backoff" /\ fetchPc' # "Backoff") =>
            (fetchPc' = "LoopHead" /\ attempt' = attempt + 1)]_vars
    /\ [][(fetchPc = "LoopHead" /\ fetchPc' # "LoopHead" /\ ~signal.aborted) =>
            (fetchPc' = "InFlight" /\ fetchLog' = Append(fetchLog, "request"))]_vars

C8_Witness ==
    /\ fetchPc = "Returned" /\ fetchResult.status = 404
    /\ fetchLog = <<"request", "delay", "request", "delay", "request">>
    /\ maxRetries = 3

\* C9: one call issues at most maxRetries+1 requests and waits at most
\* maxRetries backoff delays, and requests and delays alternate: exactly one
\* delay lies between two consecutive requests.
C9_AttemptBound ==
    /\ Count(fetchLog, "request") <= maxRetries + 1
    /\ Count(fetchLog, "delay") <= maxRetries
    /\ \A i \in DOMAIN fetchLog : fetchLog[i] = (IF i % 2 = 1 THEN "request" ELSE "delay")

C9_Witness ==
    /\ FetchEnded /\ maxRetries = 3
    /\ Count(fetchLog, "request") = 4 /\ Count(fetchLog, "delay") = 3

\* C10: when the last of maxRetries+1 attempts fails retryably too, the call
\* throws: the network error of that attempt, or "HTTP <status> after
\* <maxRetries+1> attempts" for a 500/502/503/504; a response with one of
\* these statuses is never returned.
C10_Exhaustion ==
    /\ (FetchEnded /\ Count(fetchLog, "request") = maxRetries + 1
          /\ (WhitelistedStatus(netReply) \/ TransientFault(netReply)))
        => /\ fetchPc = "Thrown"
           /\ TransientFault(netReply) => fetchResult = netReply
           /\ WhitelistedStatus(netReply) =>
                  fetchResult = HttpError(netReply.status, maxRetries + 1)
    /\ fetchPc = "Returned" => ~WhitelistedStatus(fetchResult)

C10_Witness ==
    /\ fetchPc = "Thrown" /\ maxRetries = 3
    /\ fetchResult = HttpError(503, 4)
    /\ Count(fetchLog, "request") = 4

\* ------------------------------------------------------------ the commands: claims
AllZero(buf) == \A i \in DOMAIN buf : buf[i] = 0

\* the key of the run, once it exists, and the buffer holding the plaintext
KeyExists == IF cmd = "enstash" THEN encryptionResult # NoEnvelope ELSE Len(decKey) > 0
KeyBuffer == IF cmd = "enstash" THEN encryptionResult.key ELSE decKey
PlaintextBuffer == IF cmd = "enstash" THEN secretBytes ELSE decrypted.bytes

\* C4: when enstash or destash has ended, on whatever path, after its key came
\* to exist, the key buffer and the plaintext buffer hold only zeros.
C4_BuffersZeroed ==
    (cmd \in {"enstash", "destash"} /\ cmdPc = "Exited" /\ KeyExists)
        => (AllZero(KeyBuffer) /\ AllZero(PlaintextBuffer))

\* the key as text: what enstash encodes into the token, what the user gave
\* to destash or unstash after the colon
KeyText ==
    IF cmd = "enstash" THEN (IF Len(randomKey) > 0 THEN encodeKey(randomKey) ELSE <<>>)
    ELSE IF IndexOfColon(rawInput.text) > 0 THEN SplitKey(Trim(rawInput.text))
    ELSE <<>>

\* every text a request carries: the id in its URL and the fields of its body
RequestTexts ==
    {request.arg} \cup {request.body.f[x].s : x \in DOMAIN request.body.f}

\* C5: no request carries the key: the POST body is exactly the iv, tag and
\* ciphertext of the envelope, the URL of a GET or DELETE ends in the StashId
\* and nothing else, and the only text enstash writes to stdout is the token.
C5_KeyNeverOnWire ==
    /\ fetchPc # "Off" =>
          /\ Len(KeyText) > 0 => \A x \in RequestTexts : ~Contains(x, KeyText)
          /\ request.method = "POST" =>
                /\ request.endpoint = "enstash" /\ request.arg = <<>>
                /\ request.body.t = "object"
                /\ DOMAIN request.body.f = {"iv", "tag", "ciphertext"}
                /\ \A x \in DOMAIN request.body.f :
                       /\ request.body.f[x].t = "string"
                       /\ decodeBase64Url(request.body.f[x].s) = encryptionResult[x]
          /\ request.method # "POST" =>
                /\ request.method \in {"GET", "DELETE"}
                /\ request.body = JUndefined
                /\ request.arg = uuid /\ validateUUID(request.arg)
    /\ cmd = "enstash" =>
          \A i \in DOMAIN stdout :
              /\ Len(stdout[i]) = Len(NewStashId) + 45
              /\ SubSeq(stdout[i], Len(NewStashId) + 1, Len(stdout[i]))
                     = <<58>> \o KeyText \o <<10>>

C5_Witness ==
    /\ cmd = "destash" /\ fetchPc = "InFlight"
    /\ rawInput.text = PaddedToken
    /\ KeyText = encodeKey(KeyOf(1))
    /\ request.arg = StashId

\* "hello world" and the line feed
SecretLine == <<104, 101, 108, 108, 111, 32, 119, 111, 114, 108, 100, 10>>
SecretWritten == stdout = <<SecretLine>>

\* a destash of the stored stash with its token has ended
DestashEnded ==
    /\ cmd = "destash" /\ cmdPc = "Exited"
    /\ Trim(rawInput.text) = GoodToken
    /\ stash.body = GenuinePayload

C7_ValidatedBeforeCrypto ==
    (cmd = "destash" /\ decrypted.cipher) => parsePayload(fetchResult.body).ok

\* ------------------------------------------------------------ fetchWithRetry: ordering and cancellation
Last(s) == s[Len(s)]

\* the requests issued whose fetch() has not settled
InFlightCount == Count(fetchLog, "request") - Len(settleLog)

\* C11: at no time are two requests of one call in flight, and a request is
\* issued only when every earlier attempt has settled and every backoff
\* delay begun has elapsed.
C11_SequentialAttempts ==
    /\ [](InFlightCount \in {0, 1} /\ (InFlightCount = 1 <=> fetchPc = "InFlight"))
    /\ [][Count(fetchLog', "request") > Count(fetchLog, "request") =>
            /\ InFlightCount = 0
            /\ fetchPc = "LoopHead"
            /\ Len(settleLog) = attempt
            /\ Count(fetchLog, "delay") = attempt
            /\ backoffDelay = 0
            /\ fetchLog # <<>> => Last(fetchLog) = "delay"]_vars

C11_Witness ==
    /\ fetchPc = "InFlight" /\ attempt = 2
    /\ settleLog = <<503, 0>>
    /\ InFlightCount = 1

\* C12: with the caller's signal already fired when an attempt is about to
\* start, the call fails at once with an AbortError and issues no request;
\* once the signal has fired the call issues no further request.
C12_NoRequestAfterAbort ==
    [][(signal.given /\ signal.aborted) =>
          /\ Count(fetchLog', "request") = Count(fetchLog, "request")
          /\ (fetchPc = "LoopHead" /\ fetchPc' # "LoopHead") =>
                 (fetchPc' = "Thrown" /\ fetchResult'.name = "AbortError")]_vars

\* C13: when the caller's signal fires while a request is in flight the
\* request is aborted there and then; once the signal has fired during the
\* call, the call ends, and it ends by throwing an AbortError: it neither
\* hangs nor returns a response.
C13_CancellableEverywhere ==
    /\ [][(signal.given /\ ~signal.aborted /\ signal'.aborted /\ fetchPc = "InFlight")
             => (fetchPc' = "Thrown" /\ netReply' = AbortError)]_vars
    /\ []((signal.aborted /\ FetchEnded) =>
             (fetchPc = "Thrown" /\ fetchResult.name = "AbortError"))
    /\ (signal.aborted ~> FetchEnded)

\* C14: when the first k fetch() calls settled with 500/502/503/504 and the
\* next with a response of any other status, the call has returned that
\* response after exactly k delays and k+1 requests ([503, 503, 200] gives 2
\* delays and the 200, [404] no delay and the 404).
C14_ReturnsAfterKDelays ==
    (/\ FetchEnded /\ settleLog # <<>>
     /\ Last(settleLog) \notin {0, 500, 502, 503, 504}
     /\ \A i \in 1..(Len(settleLog) - 1) : settleLog[i] \in {500, 502, 503, 504})
        => /\ fetchPc = "Returned"
           /\ fetchResult.kind = "response"
           /\ fetchResult.status = Last(settleLog)
           /\ Count(fetchLog, "delay") = Len(settleLog) - 1
           /\ Count(fetchLog, "request") = Len(settleLog)

C14_Witness ==
    /\ fetchPc = "Returned" /\ maxRetries = 3
    /\ settleLog = <<503, 503, 200>>
    /\ fetchLog = <<"request", "delay", "request", "delay", "request">>
    /\ fetchResult.status = 200

\* ------------------------------------------------------------ backoff
\* C15 as stated: the delay computed for attempt a with base delay base lies
\* in [base*2^a, base*2^a + 1000] and never exceeds 10000 ms.
C15_BackoffInRange ==
    fetchPc = "Backoff" =>
        /\ backoffDelay >= baseDelay * 2 ^ attempt
        /\ backoffDelay <= baseDelay * 2 ^ attempt + 1000
        /\ backoffDelay <= 10000

\* C15: the delay never exceeds 10000 ms and lies in
\* [min(base*2^a, 10000), min(base*2^a + 1000, 10000)]; it lies in
\* [base*2^a, base*2^a + 1000] whenever base*2^a + 1000 <= 10000.
C15_BackoffInCappedRange ==
    fetchPc = "Backoff" =>
        /\ backoffDelay <= 10000
        /\ backoffDelay >= Min(baseDelay * 2 ^ attempt, 10000)
        /\ backoffDelay <= Min(baseDelay * 2 ^ attempt + 1000, 10000)
        /\ baseDelay * 2 ^ attempt + 1000 <= 10000 =>
              /\ backoffDelay >= baseDelay * 2 ^ attempt
              /\ backoffDelay <= baseDelay * 2 ^ attempt + 1000

C15_Witness ==
    /\ fetchPc = "Backoff" /\ baseDelay = 4000 /\ attempt = 2
    /\ backoffDelay = 10000

\* ------------------------------------------------------------ enstash: size ceilings
\* n times the character (or byte) c
Repeat(c, n) == [i \in 1..n |-> c]

\* arguments around the ceilings: 'a' is one byte in UTF-8, U+00E9 two,
\* U+20AC three; and short ones
CeilingArgs ==
    {Repeat(97, 4097), Repeat(233, 2049), Repeat(8364, 2542), Repeat(8364, 2543),
     Repeat(32, 2), Repeat(97, 1), Repeat(233, 3), Repeat(8364, 1)}

\* stdin contents around the ceiling
CeilingStdin == {Repeat(97, 4094), Repeat(97, 4095), Repeat(97, 4096), Repeat(97, 4097)}

\* enstash starts on an input at or around a ceiling
EnstashInit ==
    /\ cmd = "enstash" /\ cmdPc = "Start"
    /\ \/ /\ secretBytes \in EnstashSecrets \cup CeilingStdin
          /\ rawInput = [given |-> FALSE, text |-> <<>>]
       \/ /\ secretBytes = <<>>
          /\ rawInput \in {[given |-> TRUE, text |-> s] : s \in EnstashArgs \cup CeilingArgs}
    /\ uuid = <<>> /\ stdout = <<>> /\ stderr = <<>> /\ exitCode = -1
    /\ randomKey = <<>>
    /\ stash = [state |-> "absent", body |-> JUndefined]
    /\ servedAttempt = -1 /\ pending = NoReply /\ served = FALSE
    /\ storedCount = 0
    /\ delivered = "nothing"
    /\ cryptoPc = "Off" /\ encryptionResult = NoEnvelope /\ wirePayload = JUndefined
    /\ tampered = NoTamper /\ decKey = <<>> /\ decrypted = NotCalled
    /\ fetchPc = "Off" /\ attempt = 0 /\ maxRetries = 0
    /\ signal = [given |-> FALSE, aborted |-> FALSE]
    /\ request = [method |-> "", endpoint |-> "", arg |-> <<>>, body |-> JUndefined]
    /\ fetchLog = <<>> /\ netReply = NoReply /\ fetchResult = NoReply
    /\ settleLog = <<>> /\ baseDelay = 0 /\ backoffDelay = 0
    /\ fetchVariant = "timeoutOnly"
    /\ TokenOff
    /\ PayloadOff
    /\ StdinOff
    /\ EncryptOff
    /\ LengthOff

\* enstash up to its first request
EnstashNext ==
    \/ Enstash_Start
    \/ Enstash_Encrypt
    \/ FetchAttemptStart

EnstashSpec == EnstashInit /\ [][EnstashNext]_vars

\* C16: enstash issues no network request unless the plaintext secret is at
\* most 4096 bytes and the serialized wire JSON is at most 10240 bytes,
\* whether the secret came from the arguments or from stdin.
C16_SizeCeilings ==
    (cmd = "enstash" /\ Count(fetchLog, "request") > 0) =>
        /\ Len(secretBytes) <= MAX_SECRET_LENGTH
        /\ EncodedPayloadLength(request.body) <= MAX_PAYLOAD_SIZE

\* the wire JSON ceiling alone, which the code does enforce
EnstashPayloadCeiling ==
    (cmd = "enstash" /\ Count(fetchLog, "request") > 0) =>
        EncodedPayloadLength(request.body) <= MAX_PAYLOAD_SIZE

\* the secret ceiling on the stdin path, which the code does enforce
EnstashStdinCeiling ==
    (cmd = "enstash" /\ ~rawInput.given /\ Count(fetchLog, "request") > 0) =>
        Len(secretBytes) <= MAX_SECRET_LENGTH

\* ------------------------------------------------------------ the stash token
\* "A1B2C3D4-E5F6-4890-ABCD-EF1234567890"
UpperStashId == [i \in DOMAIN StashId |-> IF IsLower(StashId[i]) THEN StashId[i] - 32 ELSE StashId[i]]

\* the ids and keys formatStashToken may be applied to
TokenIds == {StashId, UpperStashId, SeventhVersionId}
TokenKeys ==
    Keys \cup {ZeroKey, ShortKey, [i \in 1..KEY_LENGTH |-> 255],
               [i \in 1..KEY_LENGTH |-> 251], [i \in 1..(KEY_LENGTH + 1) |-> 62]}

\* key texts: 43 characters of base64url that decode to 32 bytes, its first
\* 42 characters, the same with its '=', standard padded base64, 44 characters
\* with no padding, nothing, "ke y", "key:more", "ab=c", ":x"
Key43 == encodeKey(KeyOf(1))
Key42 == SubSeq(Key43, 1, 42)
KeyTexts ==
    {Key43, Key42, Append(Key43, 61), BufferToBase64([i \in 1..KEY_LENGTH |-> 251]),
     Append(Key43, 65), <<>>, <<107, 101, 32, 121>>,
     <<107, 101, 121, 58, 109, 111, 114, 101>>, <<97, 98, 61, 99>>, <<58, 120>>}

\* texts before the colon: two ids, "bad", nothing
IdTexts == {StashId, SeventhVersionId, <<98, 97, 100>>, <<>>}

\* the characters 0-9, a-f, A-F
HexChars == (48..57) \cup (97..102) \cup (65..70)

\* texts around the UUID pattern: every hex digit as version digit and as
\* variant nibble, a letter that is no hex digit, a hyphen replaced and a
\* hyphen misplaced, 35 and 37 characters, a line feed after the id, a space
\* before it, the id in upper case, the id without hyphens
UuidTexts ==
    {[StashId EXCEPT ![15] = c] : c \in HexChars}
    \cup {[StashId EXCEPT ![20] = c] : c \in HexChars}
    \cup {[StashId EXCEPT ![1] = 103], [StashId EXCEPT ![9] = 97],
          [StashId EXCEPT ![5] = 45], SubSeq(StashId, 1, 35), Append(StashId, 48),
          Append(StashId, 10), <<32>> \o StashId, UpperStashId,
          SelectSeq(StashId, LAMBDA c : c # 45)}

\* the token texts a user may type
RawTokens ==
    {id \o <<58>> \o k : id \in IdTexts, k \in KeyTexts}
    \cup {StashId, <<98, 97, 100>>, <<>>, <<32, 32>>,
          <<32>> \o StashId \o <<58>> \o Key43 \o <<10>>}
    \cup UuidTexts

TokenStart ==
    /\ \/ /\ tokenPc = "Parts"
          /\ tokenOrigin \in {[formatted |-> TRUE, id |-> id, key |-> k] :
                                 id \in TokenIds, k \in TokenKeys}
          /\ tokenInput = <<>>
       \/ /\ tokenPc = "Given"
          /\ tokenOrigin = NoOrigin
          /\ tokenInput \in RawTokens
    /\ parseResult = NoParse
    /\ tokenParts = NoParts
    /\ uuidValid = "not called"
    /\ extracted = NotExtracted

\* enstash builds the token
TokenFormat ==
    /\ tokenPc = "Parts"
    /\ tokenInput' = formatStashToken(tokenOrigin.id, tokenOrigin.key)
    /\ tokenPc' = "Given"
    /\ UNCHANGED <<tokenOrigin, parseResult, tokenParts, uuidValid, extracted>>
    /\ UNCHANGED <<cryptoVars, fetchVars, cmdVars, backendVars, payloadVars, stdinVars, encryptVars, lengthVars>>

\* the token goes through validateAndParseStashFormat
TokenParse ==
    /\ tokenPc = "Given"
    /\ parseResult' = validateAndParseStashFormat(tokenInput)
    /\ tokenPc' = "Parsed"
    /\ UNCHANGED <<tokenOrigin, tokenInput, tokenParts, uuidValid, extracted>>
    /\ UNCHANGED <<cryptoVars, fetchVars, cmdVars, backendVars, payloadVars, stdinVars, encryptVars, lengthVars>>

\* the token goes through decodeStashToken
TokenDecode ==
    /\ tokenPc = "Parsed"
    /\ tokenParts' = decodeStashToken(tokenInput)
    /\ tokenPc' = "Decoded"
    /\ UNCHANGED <<tokenOrigin, tokenInput, parseResult, uuidValid, extracted>>
    /\ UNCHANGED <<cryptoVars, fetchVars, cmdVars, backendVars, payloadVars, stdinVars, encryptVars, lengthVars>>

\* the token text goes through validateUUID
TokenValidateUUID ==
    /\ tokenPc = "Decoded"
    /\ uuidValid' = validateUUID(tokenInput)
    /\ tokenPc' = "Validated"
    /\ UNCHANGED <<tokenOrigin, tokenInput, parseResult, tokenParts, extracted>>
    /\ UNCHANGED <<cryptoVars, fetchVars, cmdVars, backendVars, payloadVars, stdinVars, encryptVars, lengthVars>>

\* the token text goes through extractUUID
TokenExtractUUID ==
    /\ tokenPc = "Validated"
    /\ extracted' = [called |-> TRUE, null |-> extractUUID(tokenInput) = <<>>,
                     uuid |-> extractUUID(tokenInput)]
    /\ tokenPc' = "Extracted"
    /\ UNCHANGED <<tokenOrigin, tokenInput, parseResult, tokenParts, uuidValid>>
    /\ UNCHANGED <<cryptoVars, fetchVars, cmdVars, backendVars, payloadVars, stdinVars, encryptVars, lengthVars>>

TokenInit == CryptoOff /\ FetchOff /\ CmdOff /\ TokenStart /\ PayloadOff /\ StdinOff /\ EncryptOff /\ LengthOff

TokenNext ==
    \/ TokenFormat
    \/ TokenParse
    \/ TokenDecode
    \/ TokenValidateUUID
    \/ TokenExtractUUID

TokenSpec == TokenInit /\ [][TokenNext]_vars

TokenParsed == tokenPc \in {"Parsed", "Decoded", "Validated", "Extracted"}

KeyLengthError == "Invalid key length: expected 32 bytes"

MatchedKey == SubSeq(Trim(tokenInput), 38, Len(Trim(tokenInput)))

\* C18: the base64 decode of the key is attempted only after the computed
\* decoded length was exactly 32: a well-formed token whose key text is valid
\* base64 of another decoded length fails with the key-length error, and no
\* decode call was made.
C18_LengthBeforeDecode ==
    TokenParsed =>
        /\ parseResult.decodes > 0 =>
              /\ STASH_FORMAT_REGEX(Trim(tokenInput))
              /\ decodedLenB64Any(MatchedKey) = KEY_LENGTH
        /\ ( /\ STASH_FORMAT_REGEX(Trim(tokenInput))
             /\ validateBase64(MatchedKey)
             /\ Len(decodeBase64Url(MatchedKey)) # KEY_LENGTH ) =>
              /\ ~parseResult.success
              /\ parseResult.error = KeyLengthError
              /\ parseResult.decodes = 0

C18_Witness ==
    /\ tokenPc = "Parsed"
    /\ tokenInput = StashId \o <<58>> \o Append(Key43, 65)
    /\ Len(decodeBase64Url(MatchedKey)) = 33
    /\ parseResult.error = KeyLengthError
    /\ parseResult.decodes = 0

\* C19: for every version-4 id and every 32-byte key k, the token
\* formatStashToken(id, k) is accepted by validateAndParseStashFormat with
\* that id, and decodeStashToken returns that id and a key equal to k.
C19_TokenRoundTrip ==
    ( /\ tokenPc = "Decoded"
      /\ tokenOrigin.formatted
      /\ tokenOrigin.id \in {StashId, UpperStashId}
      /\ Len(tokenOrigin.key) = KEY_LENGTH ) =>
        /\ parseResult.success
        /\ parseResult.id = tokenOrigin.id
        /\ tokenParts.ok
        /\ tokenParts.id = tokenOrigin.id
        /\ tokenParts.key = tokenOrigin.key

C19_Witness ==
    /\ tokenPc = "Decoded"
    /\ tokenOrigin = [formatted |-> TRUE, id |-> UpperStashId,
                      key |-> [i \in 1..KEY_LENGTH |-> 255]]
    /\ tokenInput = UpperStashId \o <<58>> \o [i \in 1..42 |-> 95] \o <<56>>
    /\ parseResult.success
    /\ tokenParts.key = tokenOrigin.key

\* C20: a non-empty trimmed input that the token pattern does not match gets
\* the first applicable diagnostic, in the order: missing colon separator,
\* invalid UUID before the first colon, missing key after the colon, and only
\* otherwise the generic format error; a result is always returned.
C20_DiagnosticPriority ==
    TokenParsed =>
        /\ parseResult # NoParse
        /\ parseResult.success \in BOOLEAN
        /\ ~parseResult.success => parseResult.error # ""
        /\ (Len(Trim(tokenInput)) > 0 /\ ~STASH_FORMAT_REGEX(Trim(tokenInput))) =>
              LET s == Trim(tokenInput)
                  c == IndexOfColon(s)
              IN  /\ ~parseResult.success
                  /\ parseResult.error =
                        IF \A i \in DOMAIN s : s[i] # 58
                        THEN "Missing colon separator. Expected format: uuid:base64urlkey"
                        ELSE IF ~UUID_REGEX(SubSeq(s, 1, c - 1))
                        THEN "Invalid uuid format"
                        ELSE IF c = Len(s) \/ s[c + 1] = 58
                        THEN "Missing key after colon"
                        ELSE "Invalid stash token format"

\* "bad:" has both an invalid UUID and no key: the UUID is reported
C20_Witness ==
    /\ tokenPc = "Parsed"
    /\ tokenInput = <<98, 97, 100, 58>>
    /\ ~parseResult.success
    /\ parseResult.error = "Invalid uuid format"

\* ------------------------------------------------------------ UUIDs
\* a text of 36 characters in groups of 8-4-4-4-12 hex digits of either case
\* with hyphens between them, '4' opening the third group and 8, 9, a or b
\* the fourth
IsUuidV4Text(s) ==
    /\ Len(s) = 36
    /\ \A i \in {9, 14, 19, 24} : s[i] = 45
    /\ \A i \in (1..36) \ {9, 14, 19, 24} : s[i] \in HexChars
    /\ s[15] = 52
    /\ s[20] \in {56, 57, 97, 98, 65, 66}

\* C21: validateUUID accepts all and only the 36-character hyphenated texts
\* of hex digits in 8-4-4-4-12 groups whose third group starts with '4' and
\* whose fourth group starts with 8, 9, a or b.
C21_UuidV4Only ==
    tokenPc \in {"Validated", "Extracted"} => (uuidValid = IsUuidV4Text(tokenInput))

C21_Witness ==
    /\ tokenPc = "Validated"
    /\ tokenInput = [StashId EXCEPT ![20] = 99]
    /\ uuidValid = FALSE

\* C22: extractUUID returns the UUID part when the trimmed input is a
\* well-formed full token, the trimmed input itself when that is a bare v4
\* UUID, and nothing in every other case; every result that is not null is a
\* v4 UUID.
C22_ExtractUUID ==
    tokenPc = "Extracted" =>
        /\ extracted.called
        /\ parseResult.success =>
              /\ ~extracted.null
              /\ extracted.uuid = SubSeq(Trim(tokenInput), 1, 36)
              /\ extracted.uuid = parseResult.id
        /\ (~parseResult.success /\ IsUuidV4Text(Trim(tokenInput))) =>
              /\ ~extracted.null
              /\ extracted.uuid = Trim(tokenInput)
        /\ (~parseResult.success /\ ~IsUuidV4Text(Trim(tokenInput))) => extracted.null
        /\ ~extracted.null => IsUuidV4Text(extracted.uuid)

\* a valid UUID followed by a colon and a key one character short
C22_Witness ==
    /\ tokenPc = "Extracted"
    /\ tokenInput = StashId \o <<58>> \o Key42
    /\ extracted.called /\ extracted.null

\* ------------------------------------------------------------ the wire payload alone
\* what a field of the JSON text can be; JUndefined stands for a field the
\* text does not have
GoodIv == GenuinePayload.f["iv"]
GoodTag == GenuinePayload.f["tag"]
GoodCiphertext == GenuinePayload.f["ciphertext"]

IvOptions ==
    { JUndefined, JOther("number"), JOther("null"), JStr(<<>>), GoodIv,
      JStr(SubSeq(GoodIv.s, 1, 15)),            \* 11 bytes
      JStr(GoodIv.s \o <<65>>),                 \* 17 characters
      JStr(SubSeq(GoodIv.s, 1, 15) \o <<43>>),  \* '+', of the standard alphabet
      JStr(GoodIv.s \o <<61, 61>>) }            \* padded

TagOptions ==
    { JUndefined, JArr(<<>>, 0), JOther("boolean"), GoodTag,
      JStr(SubSeq(GoodTag.s, 1, 21)),           \* 15 bytes
      JStr(GoodTag.s \o <<65, 65>>),            \* 18 bytes
      JStr(SubSeq(GoodTag.s, 1, 21) \o <<47>>) }  \* '/', of the standard alphabet

CiphertextOptions ==
    { JUndefined, JOther("number"), JStr(<<>>), GoodCiphertext,
      JStr(<<65>>),                             \* one character, no byte
      JStr(<<65, 65>>),                         \* one byte
      JStr(<<65, 43>>) }                        \* '+'

\* the object a JSON text with these fields parses to; extra is a field the
\* payload does not know
PayloadObject(iv, tag, ciphertext, extra) ==
    LET given == [k \in {"iv", "tag", "ciphertext", "extra"} |->
                     CASE k = "iv" -> iv [] k = "tag" -> tag
                       [] k = "ciphertext" -> ciphertext [] OTHER -> extra]
    IN  JObj([k \in {k \in DOMAIN given : given[k] # JUndefined} |-> given[k]])

\* the JSON values that are no object, and a text that is no JSON
NonObjects ==
    { JOther("null"), JOther("number"), JOther("boolean"), JStr(<<>>), JStr(GoodIv.s),
      JArr(<<>>, 0), JArr(GoodIv.s, 3), JOther("not json") }

PayloadInputs ==
    NonObjects
    \cup { PayloadObject(iv, tag, ciphertext, JUndefined) :
               iv \in IvOptions, tag \in TagOptions, ciphertext \in CiphertextOptions }
    \cup { PayloadObject(GoodIv, GoodTag, GoodCiphertext, JStr(<<120>>)) }

PayloadStart ==
    /\ payloadPc = "Given"
    /\ payloadInput \in PayloadInputs
    /\ payloadResult = NoPayloadResult

\* parsePayload is called on the text
PayloadParse ==
    /\ payloadPc = "Given"
    /\ payloadPc' = "Parsed"
    /\ payloadResult' = parsePayload(payloadInput)
    /\ UNCHANGED payloadInput
    /\ UNCHANGED <<cryptoVars, fetchVars, cmdVars, backendVars, tokenVars, stdinVars, encryptVars, lengthVars>>

PayloadInit == CryptoOff /\ FetchOff /\ CmdOff /\ TokenOff /\ PayloadStart /\ StdinOff /\ EncryptOff /\ LengthOff
PayloadNext == PayloadParse
PayloadSpec == PayloadInit /\ [][PayloadNext]_vars

\* the field is there and is a string
HasString(parsed, field) ==
    parsed.t = "object" /\ field \in DOMAIN parsed.f /\ parsed.f[field].t = "string"

\* the bytes decrypt gets from the field, as decodeBase64Url decodes it
DecodedLength(parsed, field) == Len(decodeBase64Url(parsed.f[field].s))

\* the field is a non-empty text of the base64url alphabet
IsBase64UrlText(parsed, field) ==
    /\ Len(parsed.f[field].s) > 0
    /\ \A i \in DOMAIN parsed.f[field].s : IsBase64Url(parsed.f[field].s[i])

\* the three fields are there, are strings and decode to the lengths of an envelope
DecodesToEnvelope(parsed) ==
    /\ \A field \in {"iv", "tag", "ciphertext"} : HasString(parsed, field)
    /\ DecodedLength(parsed, "iv") = IV_LENGTH
    /\ DecodedLength(parsed, "tag") = TAG_LENGTH
    /\ DecodedLength(parsed, "ciphertext") >= 1

\* what parsePayload returns is the three fields of the text, unchanged
ReturnsThreeFields ==
    /\ DOMAIN payloadResult.payload.f = {"iv", "tag", "ciphertext"}
    /\ \A field \in {"iv", "tag", "ciphertext"} :
           payloadResult.payload.f[field] = payloadInput.f[field]

\* C23, as stated: parsePayload succeeds exactly on the JSON objects whose iv,
\* tag and ciphertext are all present, all strings and decode to 12, 16 and at
\* least 1 bytes, and then returns those three fields unchanged
C23_SucceedsIffDecodes ==
    payloadPc = "Parsed" =>
        /\ payloadResult.ok <=> DecodesToEnvelope(payloadInput)
        /\ payloadResult.ok => ReturnsThreeFields

\* C23, amended: parsePayload succeeds exactly on the JSON objects whose iv,
\* tag and ciphertext are all present, all non-empty strings of base64url
\* characters only, and decode to 12, 16 and at least 1 bytes, and then returns
\* those three fields unchanged
C23_SucceedsIffBase64UrlDecodes ==
    payloadPc = "Parsed" =>
        /\ payloadResult.ok <=>
               /\ DecodesToEnvelope(payloadInput)
               /\ \A field \in {"iv", "tag", "ciphertext"} :
                      IsBase64UrlText(payloadInput, field)
        /\ payloadResult.ok => ReturnsThreeFields

\* a payload with a field the code does not know is parsed, and the field dropped
C23_Witness ==
    /\ payloadPc = "Parsed"
    /\ payloadInput = PayloadObject(GoodIv, GoodTag, GoodCiphertext, JStr(<<120>>))
    /\ payloadResult.ok
    /\ "extra" \notin DOMAIN payloadResult.payload.f

\* the required fields checked before this one
FieldsBefore(field) ==
    CASE field = "iv" -> {}
      [] field = "tag" -> {"iv"}
      [] field = "ciphertext" -> {"iv", "tag"}

\* the field is the first required field that is absent or no string
IsFirstBadField(parsed, field) ==
    /\ ~HasString(parsed, field)
    /\ \A before \in FieldsBefore(field) : HasString(parsed, before)

\* the error parsePayload must end in when this field is the first bad one
FieldErrorFor(parsed, field) ==
    IF field \in DOMAIN parsed.f THEN "Field must be a string"
    ELSE "Missing required field"

\* for an object, the first required field that is absent gives the
\* missing-field error and the first that is no string the wrong-type error,
\* whatever the lengths of the fields before it
ObjectFieldErrors ==
    (payloadPc = "Parsed" /\ payloadInput.t = "object") =>
        \A field \in {"iv", "tag", "ciphertext"} :
            IsFirstBadField(payloadInput, field) =>
                /\ ~payloadResult.ok
                /\ payloadResult.error = FieldErrorFor(payloadInput, field)
                /\ payloadResult.field = field

\* C24: every JSON value that is no object (null, number, string, boolean,
\* array) fails with the not-an-object error; an object fails with the
\* missing-field error for the first required field that is absent and with
\* the wrong-type error if that field is there but no string, before any
\* length check
C24_ParseErrors ==
    /\ ObjectFieldErrors
    /\ (payloadPc = "Parsed" /\ payloadInput.t \notin {"object", "not json"}) =>
           /\ ~payloadResult.ok
           /\ payloadResult.error = "Payload must be an object"

\* an object with an iv of the wrong length and no tag: the missing tag is
\* reported, not the length
C24_Witness ==
    /\ payloadPc = "Parsed"
    /\ payloadInput = PayloadObject(JStr(SubSeq(GoodIv.s, 1, 15)), JUndefined,
                                    GoodCiphertext, JUndefined)
    /\ payloadResult.error = "Missing required field"
    /\ payloadResult.field = "tag"

\* ------------------------------------------------------------ readFromStdin, event by event
STDIN_TIMEOUT == 30000

\* the step of the clock, in ms
StdinTickMs == 10000

\* total > MAX_STDIN_SIZE, never true
ExceedsMax_Never(count) == FALSE

\* total > MAX_STDIN_SIZE
ExceedsMax(count) == count > MAX_STDIN_SIZE

\* !total, never true
NoData_Never(count) == FALSE

\* !total
NoData(count) == count = 0

\* a timer that is set once, at the start, and then left as it is
resetTimer_Once(now, old) == IF old = -1 THEN now + STDIN_TIMEOUT ELSE old

\* resetTimer: the timer that was set is cleared and a new one set
resetTimer(now, old) == now + STDIN_TIMEOUT

\* the chunks left as they are
ZeroChunks_Skip(bufs, list) == bufs

\* for (const b of chunks) b.fill(0)
ZeroChunks(bufs, list) ==
    [i \in DOMAIN bufs |->
        IF \E k \in DOMAIN list : list[k] = i THEN zeroBuffer(bufs[i]) ELSE bufs[i]]

\* the chunks of the list, one after the other
RECURSIVE ConcatChunks(_, _)
ConcatChunks(bufs, list) ==
    IF list = <<>> THEN <<>>
    ELSE bufs[Head(list)] \o ConcatChunks(bufs, Tail(list))

\* Buffer.concat(list, totalLength): a new buffer of totalLength bytes
BufferConcat(bufs, list, totalLength) ==
    LET all == ConcatChunks(bufs, list)
    IN  [i \in 1..totalLength |-> IF i <= Len(all) THEN all[i] ELSE 0]

\* the promise settles without finish: a throw before it is made, or the
\* reject of a signal that is aborted already
SettleEarly(error) ==
    /\ stdinPc' = "Rejected"
    /\ stdinResult' = [settled |-> TRUE, ok |-> FALSE, error |-> error, out |-> <<>>]
    /\ UNCHANGED <<received, chunks, total, done, timer, lastChunkAt, listeners, flowing>>

\* finish that leaves the listeners on and the stream flowing
finish_KeepListening(error, out, bufs, list) ==
    /\ done' = TRUE
    /\ timer' = -1
    /\ UNCHANGED <<listeners, flowing>>
    /\ received' = ZeroChunks(bufs, list)
    /\ chunks' = <<>>
    /\ stdinResult' = [settled |-> TRUE, ok |-> error = "", error |-> error, out |-> out]
    /\ stdinPc' = IF error = "" THEN "Resolved" ELSE "Rejected"

\* finish(err, out), called with the chunks as bufs and list: the timer is
\* cleared, the listeners are removed, the stream is paused, the chunks are
\* zeroed, the list is emptied, the promise settles
finish(error, out, bufs, list) ==
    /\ done' = TRUE
    /\ timer' = -1
    /\ listeners' = {}
    /\ flowing' = FALSE
    /\ received' = ZeroChunks(bufs, list)
    /\ chunks' = <<>>
    /\ stdinResult' = [settled |-> TRUE, ok |-> error = "", error |-> error, out |-> out]
    /\ stdinPc' = IF error = "" THEN "Resolved" ELSE "Rejected"

\* the streams: 'a's in chunks around the ceiling, and short ones
StdinSources ==
    { <<>>, <<Repeat(97, 1)>>, <<Repeat(97, 4096)>>, <<Repeat(97, 4097)>>,
      <<Repeat(97, 4095), Repeat(98, 1)>>, <<Repeat(97, 4096), Repeat(98, 1)>>,
      <<Repeat(97, 4095), Repeat(98, 2), Repeat(99, 1)>>,
      <<Repeat(97, 2), Repeat(98, 3), Repeat(99, 1)>> }

StdinStart ==
    /\ stdinPc = "Called"
    /\ stdinIsTTY \in BOOLEAN
    /\ readableEnded \in BOOLEAN
    /\ stdinSignal \in {[given |-> g, aborted |-> a] : g \in BOOLEAN, a \in BOOLEAN}
    /\ stdinSignal.aborted => stdinSignal.given
    /\ stdinSource \in StdinSources
    /\ (stdinIsTTY \/ readableEnded) => stdinSource = <<>>
    /\ received = <<>>
    /\ chunks = <<>>
    /\ total = 0
    /\ done = FALSE
    /\ timer = -1
    /\ clock = 0
    /\ lastChunkAt = 0
    /\ stdinResult = NotSettled
    /\ listeners = {}
    /\ flowing = FALSE
    /\ lateEvents = <<>>

\* readFromStdin up to the first wait: the two tests of the stream, the test
\* of the signal, the handlers and the timer
StdinCall ==
    /\ stdinPc = "Called"
    /\ IF stdinIsTTY THEN SettleEarly("No stdin detected (TTY)")
       ELSE IF readableEnded THEN SettleEarly("No data received from stdin")
       ELSE IF stdinSignal.given /\ stdinSignal.aborted
       THEN SettleEarly("Aborted by caller")
       ELSE /\ stdinPc' = "Reading"
            /\ listeners' = (IF stdinSignal.given THEN {"abort"} ELSE {})
                                \cup {"SIGINT", "data", "end", "error"}
            /\ flowing' = TRUE
            /\ timer' = resetTimer(clock, timer)
            /\ UNCHANGED <<received, chunks, total, done, lastChunkAt, stdinResult>>
    /\ UNCHANGED <<stdinIsTTY, readableEnded, stdinSignal, stdinSource, clock, lateEvents>>
    /\ UNCHANGED <<cryptoVars, fetchVars, cmdVars, backendVars, tokenVars, payloadVars, encryptVars, lengthVars>>

\* onData: the stream emits its next chunk
StdinData ==
    /\ "data" \in listeners /\ flowing
    /\ ~done
    /\ stdinSource # <<>>
    /\ stdinSource' = Tail(stdinSource)
    /\ total' = total + Len(Head(stdinSource))
    /\ IF ExceedsMax(total')
       THEN /\ finish("Stdin input exceeds maximum size", <<>>,
                      Append(received, Head(stdinSource)), chunks)
            /\ UNCHANGED lastChunkAt
       ELSE /\ received' = Append(received, Head(stdinSource))
            /\ chunks' = Append(chunks, Len(received) + 1)
            /\ timer' = resetTimer(clock, timer)
            /\ lastChunkAt' = clock
            /\ UNCHANGED <<done, stdinResult, stdinPc, listeners, flowing>>
    /\ UNCHANGED <<stdinIsTTY, readableEnded, stdinSignal, clock, lateEvents>>
    /\ UNCHANGED <<cryptoVars, fetchVars, cmdVars, backendVars, tokenVars, payloadVars, encryptVars, lengthVars>>

\* onEnd: the stream has emitted all its chunks and ends
StdinEnd ==
    /\ "end" \in listeners /\ flowing
    /\ ~done
    /\ stdinSource = <<>>
    /\ IF NoData(total)
       THEN finish("No data received from stdin", <<>>, received, chunks)
       ELSE finish("", BufferConcat(received, chunks, total), received, chunks)
    /\ UNCHANGED <<stdinIsTTY, readableEnded, stdinSignal, stdinSource, total, clock,
                   lastChunkAt, lateEvents>>
    /\ UNCHANGED <<cryptoVars, fetchVars, cmdVars, backendVars, tokenVars, payloadVars, encryptVars, lengthVars>>

\* onErr: the stream fails
StdinError ==
    /\ "error" \in listeners
    /\ ~done
    /\ finish("stream error", <<>>, received, chunks)
    /\ UNCHANGED <<stdinIsTTY, readableEnded, stdinSignal, stdinSource, total, clock,
                   lastChunkAt, lateEvents>>
    /\ UNCHANGED <<cryptoVars, fetchVars, cmdVars, backendVars, tokenVars, payloadVars, encryptVars, lengthVars>>

\* onAbort: the caller aborts its signal
StdinAbort ==
    /\ "abort" \in listeners
    /\ ~done
    /\ stdinSignal.given /\ ~stdinSignal.aborted
    /\ stdinSignal' = [stdinSignal EXCEPT !.aborted = TRUE]
    /\ finish("Aborted by caller", <<>>, received, chunks)
    /\ UNCHANGED <<stdinIsTTY, readableEnded, stdinSource, total, clock, lastChunkAt,
                   lateEvents>>
    /\ UNCHANGED <<cryptoVars, fetchVars, cmdVars, backendVars, tokenVars, payloadVars, encryptVars, lengthVars>>

\* onSigint
StdinSigint ==
    /\ "SIGINT" \in listeners
    /\ ~done
    /\ finish("Interrupted by user (Ctrl+C)", <<>>, received, chunks)
    /\ UNCHANGED <<stdinIsTTY, readableEnded, stdinSignal, stdinSource, total, clock,
                   lastChunkAt, lateEvents>>
    /\ UNCHANGED <<cryptoVars, fetchVars, cmdVars, backendVars, tokenVars, payloadVars, encryptVars, lengthVars>>

\* the timer fires
StdinTimeout ==
    /\ timer # -1 /\ clock >= timer
    /\ ~done
    /\ finish("Timeout waiting for stdin input", <<>>, received, chunks)
    /\ UNCHANGED <<stdinIsTTY, readableEnded, stdinSignal, stdinSource, total, clock,
                   lastChunkAt, lateEvents>>
    /\ UNCHANGED <<cryptoVars, fetchVars, cmdVars, backendVars, tokenVars, payloadVars, encryptVars, lengthVars>>

\* time passes while the promise is pending; a timer that is due fires first
StdinTick ==
    /\ stdinPc = "Reading"
    /\ clock < timer
    /\ clock' = clock + StdinTickMs
    /\ UNCHANGED <<stdinPc, stdinIsTTY, readableEnded, stdinSignal, stdinSource,
                   received, chunks, total, done, timer, lastChunkAt, stdinResult,
                   listeners, flowing, lateEvents>>
    /\ UNCHANGED <<cryptoVars, fetchVars, cmdVars, backendVars, tokenVars, payloadVars, encryptVars, lengthVars>>

\* the events the stream, the signal, the process and the timer can emit
StdinEvents == {"data", "end", "error", "abort", "SIGINT", "timeout"}

\* the most events followed after the promise settled
MaxLateEvents == 2

\* the event has a handler of readFromStdin to run
HasHandler(event) == IF event = "timeout" THEN timer # -1 ELSE event \in listeners

\* an event is emitted after the promise settled and finds no handler of
\* readFromStdin: nothing runs
StdinLate ==
    /\ stdinResult.settled
    /\ Len(lateEvents) < MaxLateEvents
    /\ \E event \in StdinEvents :
           /\ ~HasHandler(event)
           /\ event = "abort" => stdinSignal.given
           /\ lateEvents' = Append(lateEvents, event)
    /\ UNCHANGED <<stdinPc, stdinIsTTY, readableEnded, stdinSignal, stdinSource,
                   received, chunks, total, done, timer, clock, lastChunkAt, stdinResult,
                   listeners, flowing>>
    /\ UNCHANGED <<cryptoVars, fetchVars, cmdVars, backendVars, tokenVars, payloadVars, encryptVars, lengthVars>>

StdinInit == CryptoOff /\ FetchOff /\ CmdOff /\ TokenOff /\ PayloadOff /\ StdinStart /\ EncryptOff /\ LengthOff
StdinNext ==
    \/ StdinCall
    \/ StdinData
    \/ StdinEnd
    \/ StdinError
    \/ StdinAbort
    \/ StdinSigint
    \/ StdinTimeout
    \/ StdinTick
    \/ StdinLate
StdinSpec == StdinInit /\ [][StdinNext]_vars

\* the bytes of the first n chunks the stream emitted
RECURSIVE BytesEmitted(_, _)
BytesEmitted(bufs, n) == IF n = 0 THEN 0 ELSE Len(bufs[n]) + BytesEmitted(bufs, n - 1)

\* the bytes held in the chunk list
RECURSIVE BytesHeld(_, _)
BytesHeld(bufs, list) ==
    IF list = <<>> THEN 0 ELSE Len(bufs[Head(list)]) + BytesHeld(bufs, Tail(list))

SizeExceeded == stdinResult.settled /\ stdinResult.error = "Stdin input exceeds maximum size"

\* C25: the read fails with the size-exceeded error at the first chunk that
\* brings the bytes emitted above 4096, whatever the stream has still to emit;
\* 4096 bytes are accepted; the bytes held never exceed 4096
C25_CeilingAtFirstChunk ==
    /\ BytesHeld(received, chunks) <= MAX_SECRET_LENGTH
    /\ stdinResult.ok => Len(stdinResult.out) <= MAX_SECRET_LENGTH
    /\ SizeExceeded <=> BytesEmitted(received, Len(received)) > MAX_SECRET_LENGTH
    /\ SizeExceeded => BytesEmitted(received, Len(received) - 1) <= MAX_SECRET_LENGTH

\* the second chunk brings the count to 4097 and the read fails while the
\* stream has a chunk to emit
C25_Witness ==
    /\ SizeExceeded
    /\ Len(received) = 2
    /\ BytesEmitted(received, 2) = MAX_SECRET_LENGTH + 1
    /\ stdinSource # <<>>

\* 4096 bytes in two chunks are accepted
C25_FullSizeAccepted ==
    /\ stdinPc = "Resolved"
    /\ Len(received) = 2
    /\ Len(stdinResult.out) = MAX_SECRET_LENGTH

\* C26: readFromStdin never resolves with an empty buffer; it fails when
\* stdin is a terminal, when stdin has ended already, and when the stream ends
\* with no byte received
C26_NeverEmpty ==
    /\ stdinPc = "Resolved" =>
           /\ stdinResult.ok
           /\ Len(stdinResult.out) >= 1
           /\ Len(stdinResult.out) = BytesEmitted(received, Len(received))
    /\ (stdinResult.settled /\ stdinIsTTY) =>
           /\ ~stdinResult.ok
           /\ stdinResult.error = "No stdin detected (TTY)"
    /\ (stdinResult.settled /\ ~stdinIsTTY /\ readableEnded) =>
           /\ ~stdinResult.ok
           /\ stdinResult.error = "No data received from stdin"
    /\ (stdinResult.settled /\ received = <<>>) => ~stdinResult.ok

\* a pipe that is open at the call ends, some time later, without a byte
C26_Witness ==
    /\ stdinPc = "Rejected"
    /\ ~stdinIsTTY /\ ~readableEnded
    /\ clock > 0
    /\ done
    /\ received = <<>>
    /\ stdinResult.error = "No data received from stdin"

TimedOut == stdinResult.settled /\ stdinResult.error = "Timeout waiting for stdin input"

\* C27: the timeout is an idle timeout that every chunk restarts: the read
\* fails with the timeout error only when a full period has passed since the
\* last chunk, or since the start when there was none; while it waits, the
\* timer is due one period after the last chunk
C27_IdleTimeout ==
    /\ TimedOut => clock - lastChunkAt >= STDIN_TIMEOUT
    /\ stdinPc = "Reading" =>
           /\ timer = lastChunkAt + STDIN_TIMEOUT
           /\ clock - lastChunkAt <= STDIN_TIMEOUT

\* a read that lasts longer than the period, with gaps shorter than it,
\* resolves
C27_Witness ==
    /\ stdinPc = "Resolved"
    /\ clock > STDIN_TIMEOUT
    /\ lastChunkAt > 0
    /\ lastChunkAt < STDIN_TIMEOUT

\* the chunks that were put on the list: those up to which the bytes emitted
\* were within the ceiling
Accumulated == {i \in DOMAIN received : BytesEmitted(received, i) <= MAX_SECRET_LENGTH}

\* C28: however the promise settles, every chunk accumulated so far has been
\* overwritten with zeros and the chunk list is empty
C28_ChunksZeroed ==
    stdinResult.settled =>
        /\ chunks = <<>>
        /\ \A i \in Accumulated : received[i] = zeroBuffer(received[i])

\* the size is exceeded with one chunk on the list: that chunk is zeroed
C28_Witness ==
    /\ SizeExceeded
    /\ Len(received) = 2
    /\ Accumulated = {1}
    /\ received[1] = [i \in 1..(MAX_SECRET_LENGTH - 1) |-> 0]
    /\ chunks = <<>>

\* the chunk that exceeded the ceiling is not on the list, and keeps its bytes
OverflowChunkKept ==
    SizeExceeded => received[Len(received)] # zeroBuffer(received[Len(received)])

\* ------------------------------------------------------------ outcome codes
\* the input is a well-formed token or a bare v4 UUID
IsTokenOrUuid(raw) ==
    /\ raw.given
    /\ \/ validateAndParseStashFormat(raw.text).success
       \/ IsUuidV4Text(Trim(raw.text))

\* fetchWithRetry returned a response of this class
Got2xx == fetchPc = "Returned" /\ fetchResult.status \in 200..299
GotOtherStatus ==
    fetchPc = "Returned" /\ fetchResult.status \notin (200..299) \cup {404, 410}

\* the decode-and-decrypt stage of destash failed, or would fail, on what
\* the run holds
StageFails ==
    \/ ~decodeStashToken(rawInput.text).ok
    \/ ~decrypt(fetchResult.body, decodeStashToken(rawInput.text).key).ok

DecryptFailedText == "Failed to retrieve or decrypt secret."

\* the faults of the claim that reach the decode-and-decrypt stage: a token
\* without a key, a wrong key, an iv or a tag of the wrong length, a tampered
\* tag or ciphertext
StageFault ==
    \/ rawInput.text \in {WrongKeyToken, BareUuid}
    \/ fetchResult.body \in {ShortIvPayload, ShortTagPayload, TamperedPayload,
                             TamperedTagPayload}

\* the faults the claim lists: a wrong key, a key of the wrong length, an iv
\* or a tag of the wrong length, a tampered tag or ciphertext
ListedFault ==
    \/ rawInput.text \in {WrongKeyToken, ShortKeyToken}
    \/ /\ rawInput.text = GoodToken
       /\ stash.body \in {ShortIvPayload, ShortTagPayload, TamperedPayload,
                          TamperedTagPayload}

C32_RequestOnlyForToken ==
    cmd = "destash" =>
        /\ fetchPc # "Off" => validateAndParseStashFormat(rawInput.text).success
        /\ (cmdPc = "Exited" /\ ~validateAndParseStashFormat(rawInput.text).success) =>
               /\ exitCode = 2
               /\ fetchPc = "Off"
               /\ ~served

\* the bare UUID given to destash: the GET is answered with the payload, the
\* stash is consumed, and the run ends with code 6
BareUuidConsumes ==
    /\ cmd = "destash" /\ cmdPc = "Exited"
    /\ rawInput.text = BareUuid
    /\ served /\ stash.state = "consumed"
    /\ exitCode = 6 /\ stdout = <<>>

\* ------------------------------------------------------------ encrypt, call after call
\* how many calls of encrypt a run makes
MaxEncrypts == 3

\* the key of a call taken from the first call, when there was one
KeyDrawOf_Retained(draws, calls) ==
    IF calls = <<>> THEN Len(draws) + 1 ELSE calls[1].keyDraw

\* const key = randomBytes(KEY_LENGTH): the draw the key of this call comes
\* from is the next one
KeyDrawOf(draws, calls) == Len(draws) + 1

\* encrypt(secretBytes): randomBytes(KEY_LENGTH), randomBytes(IV_LENGTH), the
\* cipher. randomBytes may return any bytes, the same twice as well.
EncryptCall ==
    /\ Len(encryptCalls) < MaxEncrypts
    /\ \E secret \in {HelloWorld}, key \in Keys, iv \in Ivs :
          LET draws == randomDraws \o <<[size |-> KEY_LENGTH, bytes |-> key],
                                        [size |-> IV_LENGTH, bytes |-> iv]>>
              keyDraw == KeyDrawOf(randomDraws, encryptCalls)
              ivDraw == Len(randomDraws) + 2
          IN  /\ randomDraws' = draws
              /\ encryptCalls' =
                     Append(encryptCalls,
                            [keyDraw |-> keyDraw, ivDraw |-> ivDraw, secret |-> secret,
                             result |-> encrypt(secret, draws[keyDraw].bytes,
                                                draws[ivDraw].bytes)])
    /\ UNCHANGED <<cryptoVars, fetchVars, cmdVars, backendVars, tokenVars, payloadVars,
                   stdinVars, lengthVars>>

\* the buffers of an envelope are zeroed by the caller, as the note on encrypt
\* asks; the next call is not affected
EncryptZero ==
    /\ encryptCalls # <<>>
    /\ encryptCalls[Len(encryptCalls)].result.key
           # zeroBuffer(encryptCalls[Len(encryptCalls)].result.key)
    /\ encryptCalls' =
           [encryptCalls EXCEPT ![Len(encryptCalls)].result.key = zeroBuffer(@)]
    /\ UNCHANGED randomDraws
    /\ UNCHANGED <<cryptoVars, fetchVars, cmdVars, backendVars, tokenVars, payloadVars,
                   stdinVars, lengthVars>>

EncryptInit ==
    CryptoOff /\ FetchOff /\ CmdOff /\ TokenOff /\ PayloadOff /\ StdinOff /\ EncryptOff
        /\ LengthOff
EncryptNext == EncryptCall \/ EncryptZero
EncryptSpec == EncryptInit /\ [][EncryptNext]_vars

\* C31: each call of encrypt draws its own key of 32 bytes and its own nonce
\* of 12 bytes from randomBytes, during the call, and no draw is the key of
\* two calls
C31_FreshKeyPerCall ==
    \A c \in DOMAIN encryptCalls :
        /\ encryptCalls[c].keyDraw \in {2 * c - 1, 2 * c}
        /\ encryptCalls[c].ivDraw \in {2 * c - 1, 2 * c}
        /\ encryptCalls[c].keyDraw # encryptCalls[c].ivDraw
        /\ randomDraws[encryptCalls[c].keyDraw].size = KEY_LENGTH
        /\ randomDraws[encryptCalls[c].ivDraw].size = IV_LENGTH
        /\ Len(encryptCalls[c].result.key) = KEY_LENGTH
        /\ Len(encryptCalls[c].result.iv) = IV_LENGTH
        /\ encryptCalls[c].result.iv = randomDraws[encryptCalls[c].ivDraw].bytes
        /\ encryptCalls[c].result.ciphertext =
               GcmCrypt(randomDraws[encryptCalls[c].keyDraw].bytes,
                        randomDraws[encryptCalls[c].ivDraw].bytes, encryptCalls[c].secret)
        /\ \A d \in DOMAIN encryptCalls :
               c # d => encryptCalls[c].keyDraw # encryptCalls[d].keyDraw

\* three calls, three draws of a key
C31_Witness ==
    /\ Len(encryptCalls) = 3
    /\ Len(randomDraws) = 6
    /\ {encryptCalls[c].keyDraw : c \in 1..3} = {1, 3, 5}

\* ------------------------------------------------------------ decryptToBytes on any payload and key
LongKey == [i \in 1..(KEY_LENGTH + 1) |-> 7]

\* the keys a caller may pass: those of encrypt, and keys of 0, 31, 32 and 33
\* bytes that encrypt never made
AnyKeys == DecryptKeys \cup {LongKey, <<>>}

\* the values a caller may pass as payload: whatever JSON.parse can give
AnyPayloads == PayloadInputs \ {JOther("not json")}

DecryptStart ==
    /\ cryptoPc = "Wire"
    /\ secretBytes = HelloWorld
    /\ encryptionResult = StoredEnvelope
    /\ wirePayload \in AnyPayloads
    /\ tampered = NoTamper
    /\ decKey = <<>>
    /\ decrypted = NotCalled

\* decryptToBytes(payload, key)
DecryptCall ==
    /\ cryptoPc = "Wire"
    /\ \E key \in AnyKeys :
           /\ decKey' = key
           /\ decrypted' = decryptToBytes(wirePayload, key)
    /\ cryptoPc' = IF decrypted'.ok THEN "Open" ELSE "Rejected"
    /\ UNCHANGED <<secretBytes, encryptionResult, wirePayload, tampered>>
    /\ UNCHANGED <<fetchVars, cmdVars, backendVars>>
    /\ UNCHANGED <<tokenVars, payloadVars, stdinVars, encryptVars, lengthVars>>

DecryptInit ==
    DecryptStart /\ FetchOff /\ CmdOff /\ TokenOff /\ PayloadOff /\ StdinOff /\ EncryptOff
        /\ LengthOff
DecryptNext == DecryptCall
DecryptSpec == DecryptInit /\ [][DecryptNext]_vars

\* the bytes decodeBase64Url makes of a field of the payload, <<>> when the
\* payload has no such text
DecodedField(payload, field) ==
    IF payload.t = "object" /\ field \in DOMAIN payload.f
       /\ JsDecodeBase64Url(payload.f[field]).ok
    THEN JsDecodeBase64Url(payload.f[field]).bytes
    ELSE <<>>

\* C33: decryptToBytes creates the decipher only if the key has 32 bytes, the
\* decoded iv 12 and the decoded tag 16; a key of another length gives the
\* key-length error whatever the payload is
C33_KeyLengthFirst ==
    CryptoDone =>
        /\ decrypted.cipher =>
               /\ Len(decKey) = KEY_LENGTH
               /\ Len(DecodedField(wirePayload, "iv")) = IV_LENGTH
               /\ Len(DecodedField(wirePayload, "tag")) = TAG_LENGTH
        /\ Len(decKey) # KEY_LENGTH =>
               /\ ~decrypted.ok
               /\ decrypted.err = "InvalidKeyLength"
               /\ ~decrypted.cipher

\* a key of 31 bytes with a payload that has no iv: the key-length error
C33_Witness ==
    /\ cryptoPc = "Rejected"
    /\ decKey = ShortKey
    /\ wirePayload = PayloadObject(JUndefined, GoodTag, GoodCiphertext, JUndefined)
    /\ decrypted.err = "InvalidKeyLength"

\* ---------------------------------------------------------------------------
\* The decoded-length computations, each applied to one key text
\* ---------------------------------------------------------------------------

\* the longest text given (a 32-byte key is 43 characters unpadded, 44 padded)
MaxEncodedLen == 44

\* the characters of URL-safe texts, taken in turn: A Z a z 0 9 - _
UrlSafeCycle == <<65, 90, 97, 122, 48, 57, 45, 95>>

PlainText(n) == Repeat(65, n)
MixedText(n) == [i \in 1..n |-> UrlSafeCycle[((i - 1) % 8) + 1]]
PaddedText(n, pads) == [i \in 1..n |-> IF i > n - pads THEN 61 ELSE 65]

LengthInputs ==
    {PlainText(n) : n \in 1..MaxEncodedLen}
        \cup {MixedText(n) : n \in 1..MaxEncodedLen}
        \cup {PaddedText(n, 1) : n \in 3..MaxEncodedLen}
        \cup {PaddedText(n, 2) : n \in 3..MaxEncodedLen}

LengthStart ==
    /\ lenPc = "Given"
    /\ lenInput \in LengthInputs
    /\ lenResult = NoLengths

\* the two computations and the decoder, each applied to the text
LengthCompute ==
    /\ lenPc = "Given"
    /\ lenPc' = "Computed"
    /\ LET field == validateBase64AndGetLength(JStr(lenInput), -1)
       IN  lenResult' = [any |-> decodedLenB64Any(lenInput),
                         field |-> IF field.ok THEN field.len ELSE -1,
                         decoded |-> Len(decodeBase64Url(lenInput))]
    /\ UNCHANGED <<lenInput, cryptoVars, fetchVars, cmdVars, backendVars, tokenVars,
                   payloadVars, stdinVars, encryptVars>>

LengthInit ==
    CryptoOff /\ FetchOff /\ CmdOff /\ TokenOff /\ PayloadOff /\ StdinOff /\ EncryptOff
        /\ LengthStart
LengthNext == LengthCompute
LengthSpec == LengthInit /\ [][LengthNext]_vars

HasPad(s) == \E i \in DOMAIN s : s[i] = 61
TrailingPads(s) == Cardinality({i \in DOMAIN s : s[i] = 61 /\ \A j \in i..Len(s) : s[j] = 61})
PadToFour(n) == (4 - (n % 4)) % 4

\* C34: for unpadded text of length L the token validator's computation gives
\* floor((L+p)*3/4) - p with p = (4 - L mod 4) mod 4; for text with '=' it gives
\* (L/4)*3 - the number of pad characters when L is a multiple of 4 and -1 (invalid)
\* otherwise; whenever it gives a length, that is the number of bytes the decoder
\* produces from the text; and on unpadded text the wire-field computation gives the
\* same length
C34_DecodedLength ==
    lenPc = "Computed" =>
        LET L == Len(lenInput)
        IN  /\ ~HasPad(lenInput) =>
                   /\ lenResult.any = ((L + PadToFour(L)) * 3) \div 4 - PadToFour(L)
                   /\ lenResult.field = lenResult.any
            /\ (HasPad(lenInput) /\ L % 4 = 0) =>
                   lenResult.any = (L \div 4) * 3 - TrailingPads(lenInput)
            /\ (HasPad(lenInput) /\ L % 4 # 0) => lenResult.any = -1
            /\ lenResult.any # -1 => lenResult.any = lenResult.decoded

C34_Witness ==
    /\ lenPc = "Computed"
    /\ ~HasPad(lenInput)
    /\ Len(lenInput) = 17
    /\ lenResult.any = 12
    /\ lenResult.decoded = 12
    /\ lenResult.field = 12

\* ---------------------------------------------------------------------------
\* readFromStdin: events after the promise has settled
\* ---------------------------------------------------------------------------

\* what a handler of readFromStdin can change
StdinSettledState ==
    <<stdinResult, stdinPc, received, chunks, total, done, timer, listeners, flowing>>

\* C35: once the promise returned by readFromStdin has settled, no listener of
\* readFromStdin is left, no timer is armed and stdin is not flowing, and no
\* event emitted afterwards changes the outcome or any of that state: the promise
\* settles exactly once, by the first terminal event
C35_SettlesOnce ==
    /\ [](stdinResult.settled => (listeners = {} /\ timer = -1 /\ ~flowing))
    /\ [][stdinResult.settled => UNCHANGED StdinSettledState]_vars

C35_Witness ==
    /\ SizeExceeded
    /\ done
    /\ stdinSource # <<>>
    /\ lateEvents = <<"data", "end">>

\* C36: after any failed read, every chunk buffer received from stdin, the
\* chunk that exceeded the ceiling included, holds only zeros
C36_NoChunkKeepsBytes ==
    (stdinResult.settled /\ ~stdinResult.ok) =>
        \A i \in DOMAIN received : received[i] = zeroBuffer(received[i])

\* ---------------------------------------------------------------------------
\* enstash: what one run leaves on the backend
\* ---------------------------------------------------------------------------

\* C37: one run of enstash leaves at most one stash stored on a backend that
\* stores a stash for every POST /enstash it receives
C37_AtMostOneStash ==
    cmd = "enstash" => storedCount <= 1

\* the run ended with its token written and two stashes stored
TwoStashesOneToken ==
    /\ cmd = "enstash" /\ cmdPc = "Exited"
    /\ storedCount = 2
    /\ Len(stdout) = 1

\* the uploaded payload opens under the key: its tag is the one that key gives
SealedBy(payload, key) ==
    /\ payload.t = "object"
    /\ GcmOpen(key, decodeBase64Url(payload.f["iv"].s), decodeBase64Url(payload.f["tag"].s),
               decodeBase64Url(payload.f["ciphertext"].s)).ok

\* the id and the key of the text in the colon's two sides, and the line feed
TokenLine(id, key) == id \o <<58>> \o toBase64Url(key) \o <<10>>

\* C38: enstash writes at most one token, only after fetchWithRetry returned a
\* 2xx response; the token is that response's id, ':' and the base64url text
\* of the key that sealed the uploaded payload; the key buffer holds the key
\* until the token is written, and whenever a token is written the buffer
\* still holds it
C38_TokenAfterSuccess ==
    /\ [](cmd = "enstash" =>
            /\ Len(stdout) <= 1
            /\ cmdPc \in {"AwaitFetch", "ReadBody"} => encryptionResult.key = randomKey
            /\ stdout # <<>> =>
                  /\ fetchPc = "Returned" /\ ResponseOk(fetchResult)
                  /\ GetField(fetchResult.body, "id").t = "string"
                  /\ stdout[1] = TokenLine(GetField(fetchResult.body, "id").s, randomKey)
                  /\ SealedBy(request.body, randomKey)
                  /\ stash.body = request.body
                  /\ randomKey # zeroBuffer(randomKey))
    /\ [][(cmd = "enstash" /\ stdout' # stdout) =>
              (stdout = <<>> /\ encryptionResult.key = randomKey)]_vars

\* the token is written after a retried POST, and the key buffer is wiped
C38_Witness ==
    /\ cmd = "enstash" /\ cmdPc = "Exited" /\ exitCode = 0
    /\ attempt = 1
    /\ stdout = <<TokenLine(NewStashId, randomKey)>>
    /\ encryptionResult.key = zeroBuffer(randomKey)
    /\ encryptionResult.key # randomKey

\* the length of the wire JSON of a secret of n bytes: the 34 characters of
\* the object's punctuation and names, 16 of the iv, 22 of the tag, and the
\* unpadded base64url text of n bytes
WireLengthOf(n) == 34 + 16 + 22 + (4 * n + 2) \div 3

\* C39: a secret of 1 to 4096 bytes gives a wire JSON of 72 + ceil(4n/3)
\* characters, at most 10240, and enstash goes on to its request: the payload
\* ceiling does not reject it
C39_PayloadFitsCeiling ==
    (cmd = "enstash" /\ wirePayload # JUndefined
         /\ Len(secretBytes) >= 1 /\ Len(secretBytes) <= MAX_SECRET_LENGTH) =>
        /\ EncodedPayloadLength(wirePayload) = WireLengthOf(Len(secretBytes))
        /\ EncodedPayloadLength(wirePayload) <= MAX_PAYLOAD_SIZE
        /\ cmdPc = "AwaitFetch" /\ fetchPc # "Off"
        /\ exitCode = -1

\* the largest secret of the plaintext ceiling is on its way
C39_Witness ==
    /\ cmd = "enstash" /\ fetchPc = "InFlight"
    /\ Len(secretBytes) = MAX_SECRET_LENGTH
    /\ EncodedPayloadLength(request.body) = 5534

\* a secret that passed the character count of the argument path is rejected
\* by the payload ceiling
ArgumentOverPayloadCeiling ==
    /\ cmd = "enstash" /\ cmdPc = "Exited" /\ rawInput.given
    /\ wirePayload # JUndefined
    /\ Len(rawInput.text) <= MAX_SECRET_LENGTH
    /\ EncodedPayloadLength(wirePayload) > MAX_PAYLOAD_SIZE

\* ---------------------------------------------------------------------------
\* parsePayload: the lengths of the iv and tag texts it accepts
\* ---------------------------------------------------------------------------

\* the unpadded base64url text of n bytes has ceil(4n/3) characters
CanonicalLength(n) == (4 * n + 2) \div 3

\* C40: a payload is accepted only when its iv has the 16 characters that
\* encode 12 bytes and its tag the 22 characters that encode 16; no text
\* whose length mod 4 is 1 is accepted as iv or tag
C40_CanonicalLengthsOnly ==
    (payloadPc = "Parsed" /\ payloadResult.ok) =>
        /\ Len(payloadInput.f["iv"].s) = CanonicalLength(IV_LENGTH)
        /\ Len(payloadInput.f["tag"].s) = CanonicalLength(TAG_LENGTH)
        /\ Len(payloadInput.f["iv"].s) % 4 # 1
        /\ Len(payloadInput.f["tag"].s) % 4 # 1

\* the tag is accepted with its 22 characters only
TagCanonicalOnly ==
    (payloadPc = "Parsed" /\ payloadResult.ok) =>
        Len(payloadInput.f["tag"].s) = CanonicalLength(TAG_LENGTH)

\* an iv of 17 characters is accepted
SeventeenCharIvAccepted ==
    /\ payloadPc = "Parsed" /\ payloadResult.ok
    /\ Len(payloadInput.f["iv"].s) = 17
    /\ payloadResult.payload.f["iv"].s = payloadInput.f["iv"].s

====
